---- MODULE Spec2Model ----
(***************************************************************************)
(* Model of the Bechdel-test analysis pipeline of btest (src/src/core):    *)
(* TextProcessor.process_script, CharacterClassifier.classify_character,   *)
(* ConversationAnalyzer.extract_conversations, the llm_helper functions    *)
(* and BechdelAnalyzer.analyze_script.                                     *)
(*                                                                         *)
(* A script text is a sequence of cue blocks "NAME: w1 w2 ...", one block  *)
(* per text line.  Names are sequences of characters (the name stages work *)
(* on characters); dialogue words are whitespace-separated tokens.         *)
(*                                                                         *)
(* Spec is the pipeline of analyze_script.  Component-level specifications *)
(* exercise one part each: SpecCache calls the cached detect_gender        *)
(* directly, SpecText runs the TextProcessor on the characters of a text   *)
(* (dialogue_pattern included), SpecCharacter adds Character objects to a  *)
(* set, SpecClassify calls classify_character on one Character, SpecWindow *)
(* calls extract_conversations on mappings of up to MaxSpeakers speakers,  *)
(* SpecTopic calls _analyze_topic on one dialogue.                         *)
(*                                                                         *)
(* Two specifications model the script service (src/src/core/scrapers,     *)
(* src/src/api): SpecScraper is one BaseScraper instance used by several   *)
(* coroutines, which interleave where the code awaits; SpecApi is one call *)
(* of the get_script endpoint over stubbed scrapers and the cache file.    *)
(* The names ScrapingError, cache_config and CinemathequeScraper, which    *)
(* these modules import, are defined nowhere in the sources; the model     *)
(* takes ScrapingError as an exception class and cache_config as the       *)
(* directory and lifetime of the cache files.                              *)
(***************************************************************************)
EXTENDS Integers, Sequences, FiniteSets, TLC

(* ------------------------------ bounds --------------------------------- *)
\* longest script text, in cue blocks
MaxBlocks == 3
\* number of analyze_script calls made in one process
MaxRuns == 2
\* number of direct detect_gender calls made in one process
MaxCalls == 3
\* longest character-level script text, in pieces
MaxPieces == 5
\* speakers of a mapping handed to extract_conversations directly
MaxSpeakers == 4
\* lines of one speaker in such a mapping
MaxLinesEach == 2
\* male-indicator words in a dialogue handed to _analyze_topic directly
MaxMale == 2
\* other words in each of the two lines of such a dialogue
MaxOther == 5
\* coroutines (API requests) that use one scraper instance
MaxCoroutines == 2
\* seconds the clock runs
MaxTime == 2
\* llm_config.cache_size (OLLAMA_CACHE_SIZE, any value >= 1; default 128)
cache_size == 1

(* --------------------------- general helpers --------------------------- *)
None == "None"

Range(s) == { s[k] : k \in 1..Len(s) }

RECURSIVE Concat(_)
\* "".join / list concatenation of a sequence of sequences
Concat(ss) == IF ss = <<>> THEN <<>> ELSE Head(ss) \o Concat(Tail(ss))

RECURSIVE CountIn(_, _)
\* sum(1 for word in words if word in S)
CountIn(words, S) ==
    IF words = <<>> THEN 0
    ELSE (IF Head(words) \in S THEN 1 ELSE 0) + CountIn(Tail(words), S)

\* s.endswith(suffix) on character sequences
endswith(s, suffix) ==
    /\ Len(suffix) <= Len(s)
    /\ SubSeq(s, Len(s) - Len(suffix) + 1, Len(s)) = suffix

\* `sub in s` on character sequences
IsSubstring(sub, s) ==
    \E k \in 0..(Len(s) - Len(sub)) : SubSeq(s, k + 1, k + Len(sub)) = sub

UpperLetters ==
    << "A","B","C","D","E","F","G","H","I","J","K","L","M",
       "N","O","P","Q","R","S","T","U","V","W","X","Y","Z" >>
LowerLetters ==
    << "a","b","c","d","e","f","g","h","i","j","k","l","m",
       "n","o","p","q","r","s","t","u","v","w","x","y","z" >>

\* str.lower() of one character
LowerChar(c) ==
    IF \E k \in 1..26 : UpperLetters[k] = c
    THEN LowerLetters[CHOOSE k \in 1..26 : UpperLetters[k] = c]
    ELSE c

\* str.lower() of a character sequence
lower(s) == [k \in 1..Len(s) |-> LowerChar(s[k])]

Whitespace == { " ", "\n", "\t" }

RECURSIVE SkipWhitespace(_)
SkipWhitespace(s) ==
    IF s # <<>> /\ Head(s) \in Whitespace THEN SkipWhitespace(Tail(s)) ELSE s

RECURSIVE TakeWord(_)
TakeWord(s) ==
    IF s = <<>> \/ Head(s) \in Whitespace THEN <<>>
    ELSE <<Head(s)>> \o TakeWord(Tail(s))

\* s.split()[0]: the first whitespace-delimited token
FirstToken(s) == TakeWord(SkipWhitespace(s))

(* ------------------------------ inputs --------------------------------- *)
MARY == <<"M","A","R","Y">>
SARAH == <<"S","A","R","A","H">>
BOB == <<"B","O","B">>

\* speaker names a script may use: two names of the female lexicon and one
\* that neither the lexicons nor the suffix rules decide
Names == { MARY, SARAH, BOB }

\* dialogue word tokens; "." is a full stop standing as a token of its own and
\* "(sighs)" a parenthetical stage direction
Words == { "hi", "He", "she", ".", "(sighs)" }

\* the characters of a word token
WordChars(w) ==
    CASE w = "hi"      -> <<"h","i">>
      [] w = "He"      -> <<"H","e">>
      [] w = "she"     -> <<"s","h","e">>
      [] w = "."       -> <<".">>
      [] w = "(sighs)" -> <<"(","s","i","g","h","s",")">>

\* str.lower() of a word token
LowerWord(w) == CASE w = "He" -> "he" [] OTHER -> w

\* line.lower().split() of a dialogue line (a sequence of word tokens)
LowerSplit(line) == [k \in 1..Len(line) |-> LowerWord(line[k])]

\* the dialogue lines a block may hold
Lines == { <<"(sighs)", "hi">>, <<"He">> }

Blocks == [character : Names, dialogue : Lines]

RECURSIVE SeqsUpTo(_, _)
SeqsUpTo(S, n) ==
    IF n = 0 THEN { <<>> }
    ELSE LET shorter == SeqsUpTo(S, n - 1)
         IN  shorter \cup { Append(s, x) : s \in { t \in shorter : Len(t) = n - 1 }, x \in S }

Scripts == SeqsUpTo(Blocks, MaxBlocks)

(* ------------------- text_processor.py: TextProcessor ------------------ *)
\* re.sub(r'\([^)]*\)', '', text), then whitespace collapsed and stripped: on
\* word tokens, the parenthetical tokens go and the rest stay
_clean_text(dialogue) == SelectSeq(dialogue, LAMBDA w : w # "(sighs)")

RECURSIVE extract_dialogues(_)
\* the (character, dialogue) pairs of the cue blocks, empty dialogues dropped
extract_dialogues(text) ==
    IF text = <<>> THEN <<>>
    ELSE LET match    == Head(text)
             dialogue == _clean_text(match.dialogue)
             rest     == extract_dialogues(Tail(text))
         IN  IF dialogue # <<>>
             THEN << [character |-> match.character, line |-> dialogue] >> \o rest
             ELSE rest

HasKey(d, name) == \E k \in 1..Len(d) : d[k].name = name

\* d[name] of an insertion-ordered dict kept as a sequence of entries
Lookup(d, name) == d[CHOOSE k \in 1..Len(d) : d[k].name = name]

RECURSIVE GroupByCharacter(_, _)
GroupByCharacter(dialogues, character_lines) ==
    IF dialogues = <<>> THEN character_lines
    ELSE LET d == Head(dialogues)
             grown ==
                 IF ~HasKey(character_lines, d.character)
                 THEN Append(character_lines, [name |-> d.character, lines |-> <<d.line>>])
                 ELSE [k \in 1..Len(character_lines) |->
                         IF character_lines[k].name = d.character
                         THEN [character_lines[k] EXCEPT !.lines = Append(@, d.line)]
                         ELSE character_lines[k]]
         IN  GroupByCharacter(Tail(dialogues), grown)

\* the speaker -> lines mapping, speakers in order of first appearance
process_script(text) == GroupByCharacter(extract_dialogues(text), <<>>)

(* ------------------ character.py: CharacterClassifier ------------------ *)
female_names ==
    { <<"m","a","r","y">>, <<"p","a","t","r","i","c","i","a">>, <<"l","i","n","d","a">>,
      <<"b","a","r","b","a","r","a">>, <<"e","l","i","z","a","b","e","t","h">>,
      <<"j","e","n","n","i","f","e","r">>, <<"m","a","r","i","a">>,
      <<"s","u","s","a","n">>, <<"m","a","r","g","a","r","e","t">>,
      <<"d","o","r","o","t","h","y">>, <<"s","a","r","a","h">>,
      <<"j","e","s","s","i","c","a">>, <<"h","e","l","e","n">>, <<"n","a","n","c","y">>,
      <<"b","e","t","t","y">>, <<"k","a","r","e","n">>, <<"l","i","s","a">>,
      <<"a","n","n","a">>, <<"e","m","m","a">>, <<"e","m","i","l","y">>,
      <<"a","l","i","c","e">>, <<"j","a","n","e">>, <<"a","n","n","e">>,
      <<"j","e","a","n">>, <<"j","u","d","y">>, <<"r","o","s","e">>,
      <<"c","a","t","h","e","r","i","n","e">>, <<"m","a","r","t","h","a">> }

male_names ==
    { <<"j","a","m","e","s">>, <<"j","o","h","n">>, <<"r","o","b","e","r","t">>,
      <<"m","i","c","h","a","e","l">>, <<"w","i","l","l","i","a","m">>,
      <<"d","a","v","i","d">>, <<"r","i","c","h","a","r","d">>,
      <<"c","h","a","r","l","e","s">>, <<"j","o","s","e","p","h">>,
      <<"t","h","o","m","a","s">>, <<"g","e","o","r","g","e">>,
      <<"d","o","n","a","l","d">>, <<"k","e","n","n","e","t","h">>,
      <<"s","t","e","v","e","n">>, <<"e","d","w","a","r","d">>, <<"b","r","i","a","n">>,
      <<"r","o","n","a","l","d">>, <<"a","n","t","h","o","n","y">>,
      <<"k","e","v","i","n">>, <<"j","a","s","o","n">>, <<"m","a","t","t","h","e","w">>,
      <<"g","a","r","y">>, <<"t","i","m","o","t","h","y">>, <<"j","o","s","e">>,
      <<"l","a","r","r","y">>, <<"j","e","f","f","r","e","y">>, <<"f","r","a","n","k">>,
      <<"s","c","o","t","t">>, <<"e","r","i","c">> }

female_indicators ==
    { "she", "her", "hers", "herself", "girl", "woman", "lady", "mother",
      "sister", "aunt", "daughter", "wife", "girlfriend", "mrs", "miss", "ms" }

male_indicators ==
    { "he", "him", "his", "himself", "boy", "man", "guy", "father",
      "brother", "uncle", "son", "husband", "boyfriend", "mr", "sir" }

EndsWithAny(s, suffixes) == \E x \in suffixes : endswith(s, x)

\* _get_name_gender without the excluded endings by, ey, dy and ty
_get_name_gender_no_exclusion(name) ==
    LET first_name == FirstToken(lower(name))
    IN  IF first_name \in female_names THEN "female"
        ELSE IF first_name \in male_names THEN "male"
        ELSE IF EndsWithAny(first_name, { <<"a">>, <<"i","e">>, <<"y">>, <<"i">> })
             THEN "female"
        ELSE IF EndsWithAny(first_name, { <<"s","o","n">>, <<"t","o","n">>, <<"e","r">>,
                                          <<"o","r">>, <<"e","n">> })
             THEN "male"
        ELSE "unknown"

_get_name_gender(name) ==
    LET first_name == FirstToken(lower(name))
    IN  IF first_name \in female_names THEN "female"
        ELSE IF first_name \in male_names THEN "male"
        ELSE IF /\ EndsWithAny(first_name, { <<"a">>, <<"i","e">>, <<"y">>, <<"i">> })
                /\ ~EndsWithAny(first_name, { <<"b","y">>, <<"e","y">>, <<"d","y">>, <<"t","y">> })
             THEN "female"
        ELSE IF EndsWithAny(first_name, { <<"s","o","n">>, <<"t","o","n">>, <<"e","r">>,
                                          <<"o","r">>, <<"e","n">> })
             THEN "male"
        ELSE "unknown"

\* the 2x strict-majority rule both text stages end with
IndicatorVerdict(female_count, male_count) ==
    IF female_count > male_count * 2 THEN "female"
    ELSE IF male_count > female_count * 2 THEN "male"
    ELSE "unknown"

_analyze_dialogue_for_gender(lines) ==
    LET words == Concat([k \in 1..Len(lines) |-> LowerSplit(lines[k])])
    IN  IndicatorVerdict(CountIn(words, female_indicators), CountIn(words, male_indicators))

\* the raw script text as whitespace-separated tokens: each block is its cue
\* "NAME:" followed by its dialogue words
TextTokens(text) ==
    Concat([k \in 1..Len(text) |->
              << [cue |-> TRUE, chars |-> text[k].character \o <<":">>, word |-> None] >>
              \o [j \in 1..Len(text[k].dialogue) |->
                    [cue |-> FALSE, chars |-> WordChars(text[k].dialogue[j]),
                     word |-> text[k].dialogue[j]]]])

RECURSIVE SplitSentences(_, _)
\* text.split('.'): cur is the sentence being read
SplitSentences(tokens, cur) ==
    IF tokens = <<>> THEN << cur >>
    ELSE IF Head(tokens).word = "."
         THEN << cur >> \o SplitSentences(Tail(tokens), <<>>)
         ELSE SplitSentences(Tail(tokens), Append(cur, Head(tokens)))

\* `name in sentence`: a name without whitespace lies inside one token
NameInSentence(name, sentence) ==
    \E k \in 1..Len(sentence) : IsSubstring(name, sentence[k].chars)

\* sentence.lower().split(): a lowercased cue "name:" is never an indicator word
SentenceWords(sentence) ==
    LET spoken == SelectSeq(sentence, LAMBDA t : ~t.cue)
    IN  [k \in 1..Len(spoken) |-> LowerWord(spoken[k].word)]

_analyze_context_for_gender(name, text) ==
    LET sentences == SplitSentences(TextTokens(text), <<>>)
        mentions  == SelectSeq(sentences, LAMBDA s : NameInSentence(name, s))
        words     == Concat([k \in 1..Len(mentions) |-> SentenceWords(mentions[k])])
    IN  IndicatorVerdict(CountIn(words, female_indicators), CountIn(words, male_indicators))

(* ----------------------- results of a call ------------------------------ *)
\* Optional[X]: None is the empty sequence, a present value x is <<x>>
NoneOpt == <<>>
Some(x) == << x >>

Return(v) == [raised |-> FALSE, value |-> Some(v), exc |-> "none"]
Raise(e) == [raised |-> TRUE,  value |-> NoneOpt, exc |-> e]

(* ----------------------------- llm_helper.py --------------------------- *)
\* the external service does not answer: connection error or timeout
Failure == "<failure>"

\* raw responses of the service to a gender prompt
GenderReplies == { " Female\n", "male", "unknown", "maybe", Failure }

\* raw responses of the service to a topic prompt
TopicReplies == { " True\n", "false", "maybe", Failure }

\* raw responses of the service to a validation prompt
ValidationReplies == { " True\n", "false", "maybe", Failure }

\* response.strip().lower()
StripLower(response) ==
    CASE response = " Female\n" -> "female"
      [] response = " True\n"   -> "true"
      [] OTHER                  -> response

\* lambda x: x["response"].strip().lower()
gender_chain(response) == StripLower(response)

\* lambda x: x["response"].strip().lower() == "true"
topic_chain(response) == StripLower(response) = "true"

\* the body of detect_gender, given the service's reply to its prompt
detect_gender(llm_, reply) ==
    IF ~llm_ THEN Return("unknown")
    ELSE IF reply = Failure THEN Raise("LLMError")
    ELSE LET result == gender_chain(reply)
         IN  IF result \in { "female", "male", "unknown" }
             THEN Return(result)
             ELSE Return("unknown")

\* functools.lru_cache(maxsize): entries [key, value], least recently used first
CacheHas(cache, key) == \E k \in 1..Len(cache) : cache[k].key = key

CacheGet(cache, key) == cache[CHOOSE k \in 1..Len(cache) : cache[k].key = key].value

\* a hit moves the entry to the most recently used end
CacheTouch(cache, key) ==
    LET hit == cache[CHOOSE k \in 1..Len(cache) : cache[k].key = key]
    IN  Append(SelectSeq(cache, LAMBDA e : e.key # key), hit)

\* CachePut with the entry just stored evicted from a full cache
CachePut_evicts_newest(cache, key, value) ==
    IF Len(cache) >= cache_size THEN cache
    ELSE Append(cache, [key |-> key, value |-> value])

\* a miss stores the returned value and evicts the least recently used entry
CachePut(cache, key, value) ==
    LET grown == Append(cache, [key |-> key, value |-> value])
    IN  IF Len(grown) > cache_size THEN Tail(grown) ELSE grown

\* CacheAfterCall with a failed call remembered as "unknown"
CacheAfterCall_remember_failure(cache, key, detected) ==
    CachePut(cache, key, IF detected.raised THEN "unknown" ELSE detected.value[1])

\* what the lru_cache of detect_gender holds after a miss: a returned value is
\* stored, a raised exception is not
CacheAfterCall(cache, key, detected) ==
    IF detected.raised THEN cache ELSE CachePut(cache, key, detected.value[1])

male_terms ==
    { "he", "him", "his", "himself", "man", "men", "guy", "guys",
      "father", "brother", "son", "husband", "boyfriend" }

_heuristic_male_topic_detection(dialogue) ==
    LET words == Range(Concat([k \in 1..Len(dialogue) |-> LowerSplit(dialogue[k])]))
        male_word_count == Cardinality(words \cap male_terms)
    IN  male_word_count * 10 > Cardinality(words)

\* hash() of a list raises TypeError
ListIsHashable == FALSE

\* is_conversation_about_men is wrapped in lru_cache, which hashes the
\* argument before the body runs; its callers pass the dialogue as a list
is_conversation_about_men(dialogue, llm_, reply) ==
    IF ~ListIsHashable THEN Raise("TypeError")
    ELSE IF ~llm_ THEN Return(_heuristic_male_topic_detection(dialogue))
    ELSE IF reply = Failure THEN Return(_heuristic_male_topic_detection(dialogue))
    ELSE Return(topic_chain(reply))

\* ValidationError is not imported by llm_helper.py, so the raise statement
\* of the except block raises NameError
validate_bechdel_result(llm_, female_characters_, conversations_, original_result, reply) ==
    IF ~llm_ THEN Return(original_result)
    ELSE IF Len(female_characters_) < 2 THEN Return(FALSE)
    ELSE IF reply = Failure THEN Raise("NameError")
    ELSE Return(StripLower(reply) = "true")

(* ---------------- character.py: classify_character -------------------- *)
Character(name, lines) == [name |-> name, lines |-> lines, gender |-> "unknown"]

\* StageGender with the character's own dialogue asked before the name
StageGender_dialogue_first(character, text) ==
    LET name_gender == _get_name_gender(character.name)
        dialogue_gender ==
            IF character.lines # <<>>
            THEN _analyze_dialogue_for_gender(character.lines) ELSE "unknown"
        context_gender ==
            IF text # <<>>
            THEN _analyze_context_for_gender(character.name, text) ELSE "unknown"
    IN  IF dialogue_gender # "unknown" THEN dialogue_gender
        ELSE IF name_gender # "unknown" THEN name_gender
        ELSE context_gender

\* the first decisive stage among name, own dialogue and script context
StageGender(character, text) ==
    LET name_gender == _get_name_gender(character.name)
        dialogue_gender ==
            IF character.lines # <<>>
            THEN _analyze_dialogue_for_gender(character.lines) ELSE "unknown"
        context_gender ==
            IF text # <<>>
            THEN _analyze_context_for_gender(character.name, text) ELSE "unknown"
    IN  IF name_gender # "unknown" THEN name_gender
        ELSE IF dialogue_gender # "unknown" THEN dialogue_gender
        ELSE context_gender

\* classify_character calls detect_gender
CallsDetectGender(character, text) ==
    StageGender(character, text) = "unknown" /\ text # <<>>

RECURSIVE JoinLines(_)
\* "\n".join(lines)
JoinLines(lines) ==
    IF lines = <<>> THEN <<>>
    ELSE IF Len(lines) = 1 THEN Head(lines)
    ELSE Head(lines) \o << "\n" >> \o JoinLines(Tail(lines))

\* the context handed to detect_gender: the character's lines joined, or the
\* script text when the character has none
GenderContext(character, text) ==
    IF character.lines # <<>>
    THEN [joined |-> JoinLines(character.lines), script |-> <<>>]
    ELSE [joined |-> <<>>, script |-> text]

\* the lru_cache key of detect_gender(character_name, context)
GenderKey(character, text) ==
    [character_name |-> character.name, context |-> GenderContext(character, text)]

\* llm_gender is what detect_gender returned, when it was called
classify_character(character, text, llm_gender) ==
    LET staged == StageGender(character, text)
    IN  IF staged # "unknown" THEN [character EXCEPT !.gender = staged]
        ELSE IF text # <<>> /\ llm_gender # "unknown"
             THEN [character EXCEPT !.gender = llm_gender]
        ELSE character

(* ------------- conversation.py: ConversationAnalyzer ------------------- *)
male_topic_indicators ==
    { "he", "him", "his", "himself", "boy", "man", "guy", "father", "brother",
      "uncle", "son", "husband", "boyfriend", "mr", "sir", "dad", "daddy",
      "grandpa", "grandfather" }

\* _rule_based_topic_analysis with a ratio of exactly 0.1 counted as about men
_rule_based_topic_analysis_nonstrict(dialogue) ==
    LET words == Concat([k \in 1..Len(dialogue) |-> LowerSplit(dialogue[k])])
        total_words == Len(words)
        male_ref_count == CountIn(words, male_topic_indicators)
    IN  IF total_words > 0
        THEN male_ref_count * 10 >= total_words
        ELSE FALSE

\* _rule_based_topic_analysis with the comparison turned round
_rule_based_topic_analysis_below(dialogue) ==
    LET words == Concat([k \in 1..Len(dialogue) |-> LowerSplit(dialogue[k])])
        total_words == Len(words)
        male_ref_count == CountIn(words, male_topic_indicators)
    IN  IF total_words > 0
        THEN male_ref_count * 10 < total_words
        ELSE FALSE

_rule_based_topic_analysis(dialogue) ==
    LET words == Concat([k \in 1..Len(dialogue) |-> LowerSplit(dialogue[k])])
        total_words == Len(words)
        male_ref_count == CountIn(words, male_topic_indicators)
    IN  IF total_words > 0
        THEN male_ref_count * 10 > total_words    \* male_ref_count / total_words > 0.1
        ELSE FALSE

\* reply is the service's answer to the topic prompt for this dialogue
_analyze_topic(dialogue, llm_, reply) ==
    LET about_men == is_conversation_about_men(dialogue, llm_, reply)
    IN  IF about_men.raised
        THEN _rule_based_topic_analysis(dialogue)
        ELSE about_men.value[1]

Conversation(participants, dialogue, about_men, context) ==
    [participants |-> participants, dialogue |-> dialogue,
     about_men |-> about_men, context |-> context]

\* last_speaker = None
NoSpeaker == <<>>

\* the (name, line) tuples of the mapping, speaker by speaker
FlattenLines(character_lines_, characters_) ==
    Concat([k \in 1..Len(character_lines_) |->
              IF HasKey(characters_, character_lines_[k].name)
              THEN [j \in 1..Len(character_lines_[k].lines) |->
                      [name |-> character_lines_[k].name,
                       line |-> character_lines_[k].lines[j]]]
              ELSE <<>>])

\* the state of the windowing loop before its first iteration
WindowStart ==
    [participants |-> {}, dialogue |-> <<>>, last_speaker |-> NoSpeaker,
     conversations |-> <<>>]

\* the Conversation appended at a speaker change: a snapshot of the running
\* participants and dialogue, the current line included
ChangeConversation_before_line(participants, dialogue, idx, llm_, reply) ==
    Conversation(participants, SubSeq(dialogue, 1, Len(dialogue) - 1),
                 _analyze_topic(SubSeq(dialogue, 1, Len(dialogue) - 1), llm_, reply),
                 <<"Conversation at sequence", idx>>)

ChangeConversation(participants, dialogue, idx, llm_, reply) ==
    Conversation(participants, dialogue, _analyze_topic(dialogue, llm_, reply),
                 <<"Conversation at sequence", idx>>)

\* the running dialogue after a reset: the last entry of the running dialogue,
\* which is the line appended in this iteration, and the line again
ResetDialogue_cleared(current_dialogue, line) == <<>>

ResetDialogue(current_dialogue, line) ==
    << current_dialogue[Len(current_dialogue)], line >>

\* FinalEmission without the final Conversation when a speaker-change
\* Conversation was appended at the same index
FinalEmission_deduplicated(conversations_, participants, dialogue, idx, n, llm_, reply) ==
    IF /\ idx = n - 1
       /\ Cardinality(participants) >= 2
       /\ \/ conversations_ = <<>>
          \/ conversations_[Len(conversations_)].context # <<"Conversation at sequence", idx>>
    THEN Append(conversations_,
                Conversation(participants, dialogue, _analyze_topic(dialogue, llm_, reply),
                             <<"Final conversation in sequence">>))
    ELSE conversations_

\* the end of an iteration: at the last index, with two or more running
\* participants, the final Conversation is appended
FinalEmission(conversations_, participants, dialogue, idx, n, llm_, reply) ==
    IF idx = n - 1 /\ Cardinality(participants) >= 2
    THEN Append(conversations_,
                Conversation(participants, dialogue, _analyze_topic(dialogue, llm_, reply),
                             <<"Final conversation in sequence">>))
    ELSE conversations_

\* WindowIteration with a Conversation appended at every line that finds two
\* or more running participants, not only at a speaker change
WindowIteration_every_line(w, idx, name, line, n, characters_, llm_, reply) ==
    LET current_char == Lookup(characters_, name)
        participants1 == w.participants \cup { current_char }
        dialogue1 == Append(w.dialogue, line)
        conversations1 ==
            IF w.last_speaker # NoSpeaker /\ Cardinality(participants1) >= 2
            THEN Append(w.conversations,
                        ChangeConversation(participants1, dialogue1, idx, llm_, reply))
            ELSE w.conversations
        reset == (w.last_speaker = NoSpeaker \/ name # w.last_speaker) /\ Len(dialogue1) > 1
        dialogue2 ==
            IF reset THEN ResetDialogue(dialogue1, line) ELSE dialogue1
        participants2 ==
            IF reset
            THEN IF w.last_speaker # NoSpeaker
                 THEN { Lookup(characters_, w.last_speaker), current_char }
                 ELSE { current_char }
            ELSE participants1
        conversations2 ==
            FinalEmission(conversations1, participants2, dialogue2, idx, n, llm_, reply)
    IN  [participants |-> participants2, dialogue |-> dialogue2,
         last_speaker |-> name, conversations |-> conversations2]

\* WindowIteration with a reset that cuts the running dialogue and leaves the
\* running participants as they are
WindowIteration_participants_kept(w, idx, name, line, n, characters_, llm_, reply) ==
    LET current_char == Lookup(characters_, name)
        participants1 == w.participants \cup { current_char }
        dialogue1 == Append(w.dialogue, line)
        changed == w.last_speaker # NoSpeaker /\ name # w.last_speaker
        conversations1 ==
            IF changed /\ Cardinality(participants1) >= 2
            THEN Append(w.conversations,
                        ChangeConversation(participants1, dialogue1, idx, llm_, reply))
            ELSE w.conversations
        reset == (w.last_speaker = NoSpeaker \/ name # w.last_speaker) /\ Len(dialogue1) > 1
        dialogue2 ==
            IF reset THEN ResetDialogue(dialogue1, line) ELSE dialogue1
        conversations2 ==
            FinalEmission(conversations1, participants1, dialogue2, idx, n, llm_, reply)
    IN  [participants |-> participants1, dialogue |-> dialogue2,
         last_speaker |-> name, conversations |-> conversations2]

\* one iteration of the windowing loop: w is the loop state, idx the 0-based
\* index of the tuple (name, line), n the length of the sequence
WindowIteration(w, idx, name, line, n, characters_, llm_, reply) ==
    LET current_char == Lookup(characters_, name)
        participants1 == w.participants \cup { current_char }
        dialogue1 == Append(w.dialogue, line)
        changed == w.last_speaker # NoSpeaker /\ name # w.last_speaker
        conversations1 ==
            IF changed /\ Cardinality(participants1) >= 2
            THEN Append(w.conversations,
                        ChangeConversation(participants1, dialogue1, idx, llm_, reply))
            ELSE w.conversations
        reset == (w.last_speaker = NoSpeaker \/ name # w.last_speaker) /\ Len(dialogue1) > 1
        dialogue2 ==
            IF reset THEN ResetDialogue(dialogue1, line) ELSE dialogue1
        participants2 ==
            IF reset
            THEN IF w.last_speaker # NoSpeaker
                 THEN { Lookup(characters_, w.last_speaker), current_char }
                 ELSE { current_char }
            ELSE participants1
        conversations2 ==
            FinalEmission(conversations1, participants2, dialogue2, idx, n, llm_, reply)
    IN  [participants |-> participants2, dialogue |-> dialogue2,
         last_speaker |-> name, conversations |-> conversations2]

(* ------------------- analyzer.py: BechdelAnalyzer ---------------------- *)
BechdelResult(passes_test, female_characters_, conversations_, failure_reasons) ==
    [passes_test |-> passes_test, female_characters |-> female_characters_,
     conversations |-> conversations_, failure_reasons |-> failure_reasons]

ReasonFewFemales == "Fewer than two female characters found"
ReasonNoFemaleConversation == "No conversations between female characters found"
ReasonAllAboutMen == "All conversations between female characters are about men"
ReasonValidation == "LLM validation determined test should fail"

\* female_conversations with any() in place of all()
female_conversations_any(conversations_) ==
    SelectSeq(conversations_,
              LAMBDA conv : /\ \E char \in conv.participants : char.gender = "female"
                            /\ Cardinality(conv.participants) >= 2)

\* criterion 2: conversations whose participants are all female, at least two
female_conversations(conversations_) ==
    SelectSeq(conversations_,
              LAMBDA conv : /\ \A char \in conv.participants : char.gender = "female"
                            /\ Cardinality(conv.participants) >= 2)

\* criterion 3: the female conversations that are not about men
non_male_conversations(conversations_) ==
    SelectSeq(female_conversations(conversations_), LAMBDA conv : ~conv.about_men)

\* RuleBasedResult without the early returns: every unmet criterion adds its reason
RuleBasedResult_all_reasons(female_characters_, conversations_) ==
    LET reasons ==
            (IF Len(female_characters_) < 2 THEN << ReasonFewFemales >> ELSE <<>>)
            \o (IF female_conversations(conversations_) = <<>>
                THEN << ReasonNoFemaleConversation >> ELSE <<>>)
            \o (IF non_male_conversations(conversations_) = <<>>
                THEN << ReasonAllAboutMen >> ELSE <<>>)
    IN  IF reasons # <<>>
        THEN BechdelResult(FALSE, female_characters_, conversations_, Some(reasons))
        ELSE BechdelResult(TRUE, female_characters_, conversations_, NoneOpt)

\* RuleBasedResult whose PASS carries the empty failure_reasons list of line 61
RuleBasedResult_empty_reasons(female_characters_, conversations_) ==
    IF Len(female_characters_) < 2
    THEN BechdelResult(FALSE, female_characters_, conversations_,
                       Some(<< ReasonFewFemales >>))
    ELSE IF female_conversations(conversations_) = <<>>
    THEN BechdelResult(FALSE, female_characters_, conversations_,
                       Some(<< ReasonNoFemaleConversation >>))
    ELSE IF non_male_conversations(conversations_) = <<>>
    THEN BechdelResult(FALSE, female_characters_, conversations_,
                       Some(<< ReasonAllAboutMen >>))
    ELSE BechdelResult(TRUE, female_characters_, conversations_, Some(<<>>))

\* lines 60-111 of analyze_script: the rule-based result
\* RuleBasedResult with the filtered lists of criteria 2 and 3 attached
RuleBasedResult_filtered(female_characters_, conversations_) ==
    IF Len(female_characters_) < 2
    THEN BechdelResult(FALSE, female_characters_, conversations_,
                       Some(<< ReasonFewFemales >>))
    ELSE IF female_conversations(conversations_) = <<>>
    THEN BechdelResult(FALSE, female_characters_, female_conversations(conversations_),
                       Some(<< ReasonNoFemaleConversation >>))
    ELSE IF non_male_conversations(conversations_) = <<>>
    THEN BechdelResult(FALSE, female_characters_, female_conversations(conversations_),
                       Some(<< ReasonAllAboutMen >>))
    ELSE BechdelResult(TRUE, female_characters_, non_male_conversations(conversations_),
                       NoneOpt)

RuleBasedResult(female_characters_, conversations_) ==
    IF Len(female_characters_) < 2
    THEN BechdelResult(FALSE, female_characters_, conversations_,
                       Some(<< ReasonFewFemales >>))
    ELSE IF female_conversations(conversations_) = <<>>
    THEN BechdelResult(FALSE, female_characters_, conversations_,
                       Some(<< ReasonNoFemaleConversation >>))
    ELSE IF non_male_conversations(conversations_) = <<>>
    THEN BechdelResult(FALSE, female_characters_, conversations_,
                       Some(<< ReasonAllAboutMen >>))
    ELSE BechdelResult(TRUE, female_characters_, conversations_, NoneOpt)

\* ValidatedResult with the test of line 126 inverted
ValidatedResult_inverted(result_, validated) ==
    IF validated.raised THEN result_
    ELSE IF validated.value[1]
         THEN [result_ EXCEPT !.passes_test = FALSE,
                              !.failure_reasons = Some(<< ReasonValidation >>)]
    ELSE result_

\* ValidatedResult that fails the test when the validation call raises
ValidatedResult_failclosed(result_, validated) ==
    IF validated.raised \/ ~validated.value[1]
    THEN [result_ EXCEPT !.passes_test = FALSE,
                         !.failure_reasons = Some(<< ReasonValidation >>)]
    ELSE result_

\* lines 113-133 of analyze_script: validated is what validate_bechdel_result
\* did (a returned boolean or a raised exception, which is swallowed)
ValidatedResult(result_, validated) ==
    IF validated.raised THEN result_
    ELSE IF ~validated.value[1]
         THEN [result_ EXCEPT !.passes_test = FALSE,
                              !.failure_reasons = Some(<< ReasonValidation >>)]
    ELSE result_

(* ------------------------------ state ---------------------------------- *)
VARIABLES
    script_text,          \* the text every run analyzes
    llm,                  \* llm_helper.llm is not None
    topic_reply,          \* the stubbed service's reply to a topic prompt
    stub_gender,          \* the stubbed service's replies to gender prompts so far
    stub_validate,        \* the stubbed service's reply to the validation prompt
    gender_cache,         \* the lru_cache of detect_gender (module level)
    pc,                   \* position inside analyze_script
    run,                  \* analyze_script calls started so far
    outcomes,             \* what the earlier calls returned or raised
    calls,                \* replies of the service to the calls of this run
    character_lines,      \* analyze_script locals ...
    characters,
    female_characters,
    sequence,             \* extract_conversations locals ...
    i,
    window,
    conversations,
    result,               \* Optional[BechdelResult]: rule-based, then returned
    rule_based,           \* Optional[BechdelResult]: the result before validation
    exception,            \* the exception analyze_script raised, or "none"
    history,              \* direct calls of detect_gender: key, reply, outcome
    raw_text,             \* a script as a string of characters
    extracted,            \* what extract_dialogues returned for raw_text
    mapping,              \* what process_script returned for raw_text
    held,                 \* a Python set of Character objects
    character,            \* Optional[Character]: the one classify_character is given
    context,              \* the script_text classify_character is given
    classification,       \* Optional: what that call of classify_character did
    topic_dialogue,       \* the dialogue _analyze_topic is given
    about_men,            \* Optional[bool]: what _analyze_topic returned
    now,                  \* datetime.now(), in whole seconds
    last_request,         \* BaseScraper.last_request: Optional[datetime]
    _session,             \* BaseScraper._session: Optional[ClientSession]
    closed,               \* the ClientSession objects that were closed
    made,                 \* ClientSession objects constructed so far
    co,                   \* the coroutines using one scraper instance
    requests,             \* the HTTP requests issued through _fetch
    cache_file,           \* Optional: the response in the cache file of the title
    scrapers,             \* what each scraper of SCRAPERS does for the title
    api_pc,               \* position inside the get_script endpoint
    tried,                \* the scrapers asked so far, with what came of it
    response              \* Optional: what the endpoint answered

vars ==
    << script_text, llm, topic_reply, stub_gender, stub_validate, gender_cache,
       pc, run, outcomes, calls, character_lines, characters, female_characters,
       sequence, i, window, conversations, result, rule_based, exception,
       history, raw_text, extracted, mapping, held,
       character, context, classification, topic_dialogue, about_men,
       now, last_request, _session, closed, made, co, requests,
       cache_file, scrapers, api_pc, tried, response >>

\* the variables of the specifications of classify_character, of
\* _analyze_topic, of one scraper instance and of the get_script endpoint
classifier == << character, context, classification >>
topic == << topic_dialogue, about_men >>
scraper == << now, last_request, _session, closed, made, co, requests >>
endpoint == << cache_file, scrapers, api_pc, tried, response >>
later == << classifier, topic, scraper, endpoint >>

\* the components other than `used` are not in use
Idle(used) ==
    /\ used # "classifier" => (character = <<>> /\ context = <<>> /\ classification = <<>>)
    /\ used # "topic" => (topic_dialogue = <<>> /\ about_men = <<>>)
    /\ used # "scraper" =>
          /\ now = 0
          /\ last_request = <<>>
          /\ _session = <<>>
          /\ closed = {}
          /\ made = 0
          /\ co = <<>>
          /\ requests = <<>>
    /\ used # "endpoint" =>
          /\ cache_file = <<>>
          /\ scrapers = <<>>
          /\ api_pc = "idle"
          /\ tried = <<>>
          /\ response = <<>>

\* the variables of the component-level specifications
probes == << history, raw_text, extracted, mapping, held, later >>

service == << script_text, llm, topic_reply >>

\* what a finished call gave its caller
Verdict(r) == [passes_test |-> r.passes_test, failure_reasons |-> r.failure_reasons]

Outcome ==
    [verdict |-> IF result = NoneOpt THEN NoneOpt ELSE Some(Verdict(result[1])),
     exception |-> exception]

Init ==
    /\ script_text \in Scripts
    /\ llm \in BOOLEAN
    /\ topic_reply \in (IF llm THEN TopicReplies ELSE { Failure })
    /\ stub_gender = {}
    /\ stub_validate = NoneOpt
    /\ gender_cache = <<>>
    /\ pc = "ready"
    /\ run = 0
    /\ outcomes = <<>>
    /\ calls = {}
    /\ character_lines = <<>>
    /\ characters = <<>>
    /\ female_characters = <<>>
    /\ sequence = <<>>
    /\ i = 0
    /\ window = WindowStart
    /\ conversations = <<>>
    /\ result = NoneOpt
    /\ rule_based = NoneOpt
    /\ exception = "none"
    /\ history = <<>>
    /\ raw_text = <<>>
    /\ extracted = <<>>
    /\ mapping = <<>>
    /\ held = {}
    /\ Idle("none")

(* ----------------------------- actions --------------------------------- *)
\* analyze_script is called (again): lines 42-45
AnalyzeScript ==
    /\ pc \in { "ready", "done", "raised" }
    /\ run < MaxRuns
    /\ run' = run + 1
    /\ outcomes' = IF pc = "ready" THEN outcomes ELSE Append(outcomes, Outcome)
    /\ calls' = {}
    /\ character_lines' = process_script(script_text)
    /\ characters' = <<>>
    /\ female_characters' = <<>>
    /\ sequence' = <<>>
    /\ i' = 0
    /\ window' = WindowStart
    /\ conversations' = <<>>
    /\ result' = NoneOpt
    /\ rule_based' = NoneOpt
    /\ exception' = "none"
    /\ pc' = "classify"
    /\ UNCHANGED << service, stub_gender, stub_validate, gender_cache >>
    /\ UNCHANGED probes

\* the replies the stubbed service can give to the gender prompt of key
GenderRepliesFor(key) ==
    IF \E s \in stub_gender : s.key = key
    THEN { s.reply : s \in { t \in stub_gender : t.key = key } }
    ELSE GenderReplies

\* one iteration of the loop of lines 48-53: the next character is classified
ClassifyCharacter ==
    /\ pc = "classify"
    /\ Len(characters) < Len(character_lines)
    /\ LET entry == character_lines[Len(characters) + 1]
           char  == Character(entry.name, entry.lines)
           key   == GenderKey(char, script_text)
           called == CallsDetectGender(char, script_text)
           cached == called /\ CacheHas(gender_cache, key)
           asked  == called /\ ~cached /\ llm
       IN  \E reply \in (IF asked THEN GenderRepliesFor(key) ELSE { Failure }) :
              LET detected ==
                      IF cached THEN Return(CacheGet(gender_cache, key))
                      ELSE detect_gender(llm, reply)
                  classified ==
                      classify_character(char, script_text,
                          IF called /\ ~detected.raised THEN detected.value[1] ELSE "unknown")
              IN  /\ stub_gender' =
                         IF asked THEN stub_gender \cup { [key |-> key, reply |-> reply] }
                         ELSE stub_gender
                  /\ calls' = IF asked THEN calls \cup { [op |-> "gender", reply |-> reply] }
                              ELSE calls
                  /\ gender_cache' =
                         IF cached THEN CacheTouch(gender_cache, key)
                         ELSE IF called
                              THEN CacheAfterCall(gender_cache, key, detected)
                         ELSE gender_cache
                  /\ IF called /\ detected.raised
                     THEN /\ pc' = "raised"
                          /\ exception' = detected.exc
                          /\ UNCHANGED << characters, female_characters >>
                     ELSE /\ pc' = pc
                          /\ exception' = exception
                          /\ characters' = Append(characters, classified)
                          /\ female_characters' =
                                 IF classified.gender = "female"
                                 THEN Append(female_characters, classified)
                                 ELSE female_characters
    /\ UNCHANGED << service, stub_validate, run, outcomes, character_lines, sequence, i,
                    window, conversations, result, rule_based >>
    /\ UNCHANGED probes

\* extract_conversations is entered: lines 69-91 of conversation.py
ExtractConversations ==
    /\ pc = "classify"
    /\ Len(characters) = Len(character_lines)
    /\ sequence' = FlattenLines(character_lines, characters)
    /\ i' = 0
    /\ window' = WindowStart
    /\ conversations' = <<>>
    /\ pc' = IF Len(sequence') < 2 THEN "criteria" ELSE "window"
    /\ UNCHANGED << service, stub_gender, stub_validate, gender_cache, run, outcomes,
                    calls, character_lines, characters, female_characters, result,
                    rule_based, exception >>
    /\ UNCHANGED probes

\* one iteration of the windowing loop: lines 93-138 of conversation.py; after
\* the last one extract_conversations returns its list to analyze_script
WindowStep ==
    /\ pc = "window"
    /\ i < Len(sequence)
    /\ window' = WindowIteration(window, i, sequence[i + 1].name, sequence[i + 1].line,
                                 Len(sequence), characters, llm, topic_reply)
    /\ i' = i + 1
    /\ IF i' = Len(sequence)
       THEN /\ conversations' = window'.conversations
            /\ pc' = "criteria"
       ELSE /\ conversations' = conversations
            /\ pc' = pc
    /\ UNCHANGED << service, stub_gender, stub_validate, gender_cache, run, outcomes,
                    calls, character_lines, characters, female_characters, sequence,
                    result, rule_based, exception >>
    /\ UNCHANGED probes

\* WindowFault with the ConversationError caught by analyze_script and turned
\* into a FAIL result
WindowFault_swallowed ==
    /\ pc = "window"
    /\ i < Len(sequence)
    /\ pc' = "done"
    /\ exception' = "ConversationError"
    /\ result' = Some(BechdelResult(FALSE, female_characters, <<>>,
                                    Some(<< "Failed to extract conversations" >>)))
    /\ rule_based' = result'
    /\ UNCHANGED << service, stub_gender, stub_validate, gender_cache, run, outcomes,
                    calls, character_lines, characters, female_characters, sequence, i,
                    window, conversations >>
    /\ UNCHANGED probes

\* an unexpected exception inside the windowing loop: lines 139-141 of
\* conversation.py wrap it in ConversationError, which analyze_script lets through
WindowFault ==
    /\ pc = "window"
    /\ i < Len(sequence)
    /\ pc' = "raised"
    /\ exception' = "ConversationError"
    /\ UNCHANGED << service, stub_gender, stub_validate, gender_cache, run, outcomes,
                    calls, character_lines, characters, female_characters, sequence, i,
                    window, conversations, result, rule_based >>
    /\ UNCHANGED probes

\* the criteria checks: lines 60-111 of analyzer.py
CheckCriteria ==
    /\ pc = "criteria"
    /\ result' = Some(RuleBasedResult(female_characters, conversations))
    /\ rule_based' = result'
    /\ pc' = IF result'[1].passes_test THEN "validate" ELSE "done"
    /\ UNCHANGED << service, stub_gender, stub_validate, gender_cache, run, outcomes,
                    calls, character_lines, characters, female_characters, sequence, i,
                    window, conversations, exception >>
    /\ UNCHANGED probes

\* the replies the stubbed service can give to the validation prompt
ValidationRepliesFor ==
    IF stub_validate # NoneOpt THEN { stub_validate[1] } ELSE ValidationReplies

\* the validation of a rule-based pass and the return: lines 113-133
Validate ==
    /\ pc = "validate"
    /\ \E reply \in (IF llm THEN ValidationRepliesFor ELSE { Failure }) :
          LET conv_texts == [k \in 1..Len(non_male_conversations(conversations)) |->
                               non_male_conversations(conversations)[k].dialogue]
              female_char_names == [k \in 1..Len(female_characters) |->
                                      female_characters[k].name]
              validated == validate_bechdel_result(llm, female_char_names, conv_texts,
                                                   TRUE, reply)
          IN  /\ result' = Some(ValidatedResult(result[1], validated))
              /\ stub_validate' = IF llm THEN Some(reply) ELSE stub_validate
              /\ calls' = IF llm THEN calls \cup { [op |-> "validate", reply |-> reply] }
                          ELSE calls
    /\ pc' = "done"
    /\ UNCHANGED << service, stub_gender, gender_cache, run, outcomes, character_lines,
                    characters, female_characters, sequence, i, window, conversations,
                    rule_based, exception >>
    /\ UNCHANGED probes

Next ==
    \/ AnalyzeScript
    \/ ClassifyCharacter
    \/ ExtractConversations
    \/ WindowStep
    \/ WindowFault
    \/ CheckCriteria
    \/ Validate

Spec == Init /\ [][Next]_vars

(* ------------------- what the claims speak about ----------------------- *)
\* analyze_script has computed its rule-based result
Judged == rule_based # NoneOpt

\* analyze_script has returned a BechdelResult
Returned == pc = "done"

\* the speakers classified female, by name
FemaleSpeakers == { characters[k].name : k \in { j \in 1..Len(characters) :
                                                   characters[j].gender = "female" } }

\* the positions of the conversations held between women only
FemaleOnly == { k \in 1..Len(conversations) :
                  /\ Cardinality(conversations[k].participants) >= 2
                  /\ \A p \in conversations[k].participants : p.gender = "female" }

Criterion1 == Cardinality(FemaleSpeakers) >= 2
Criterion2 == FemaleOnly # {}
Criterion3 == \E k \in FemaleOnly : ~conversations[k].about_men

\* the replies the service gave to the calls of the kind op in this run
RepliesTo(op) == { c.reply : c \in { d \in calls : d.op = op } }

(* ------------------------------- C1 ------------------------------------ *)
\* C1: the rule-based verdict is PASS exactly when at least two speakers are
\* classified female, some conversation has at least two participants who are
\* all female, and some such conversation is not about men; else it is FAIL.
C1_PassIffThreeCriteria ==
    Judged => (rule_based[1].passes_test <=> (Criterion1 /\ Criterion2 /\ Criterion3))

\* a rule-based PASS next to a conversation that is not between women only
C1_Witness ==
    /\ Judged
    /\ rule_based[1].passes_test
    /\ FemaleOnly # 1..Len(conversations)

(* ------------------------------- C2 ------------------------------------ *)
\* the reason of the first criterion that is not met
FirstUnmetReason ==
    IF ~Criterion1 THEN ReasonFewFemales
    ELSE IF ~Criterion2 THEN ReasonNoFemaleConversation
    ELSE ReasonAllAboutMen

\* C2: a rule-based FAIL carries exactly one reason, that of the first unmet
\* criterion in the order 1, 2, 3, and none of a later criterion.
C2_OnlyFirstUnmetReason ==
    (Judged /\ ~rule_based[1].passes_test) =>
        /\ rule_based[1].failure_reasons # NoneOpt
        /\ rule_based[1].failure_reasons[1] = << FirstUnmetReason >>

\* criterion 1 fails while criterion 2 is unmet as well
C2_Witness ==
    /\ Judged
    /\ ~Criterion1
    /\ ~Criterion2
    /\ Len(conversations) > 0
    /\ rule_based[1].failure_reasons = Some(<< ReasonFewFemales >>)

(* ------------------------------- C3 ------------------------------------ *)
\* C3: a rule-based PASS that the validator answers false to is returned as
\* FAIL with the validation reason; a rule-based FAIL is returned as it is.
C3_ValidationOnlyDowngrades ==
    (Returned /\ Judged) =>
        /\ (rule_based[1].passes_test /\ "false" \in RepliesTo("validate")) =>
               /\ ~result[1].passes_test
               /\ result[1].failure_reasons = Some(<< ReasonValidation >>)
        /\ ~rule_based[1].passes_test =>
               /\ result = rule_based
               /\ ~result[1].passes_test

\* a rule-based PASS downgraded by the validator
C3_Witness ==
    /\ Returned
    /\ rule_based[1].passes_test
    /\ "false" \in RepliesTo("validate")
    /\ ~result[1].passes_test

(* ------------------------------- C4 ------------------------------------ *)
\* C4: with the service unavailable or the validation call failing, the
\* rule-based PASS is returned unchanged, and nothing is raised.
C4_ValidationFailureKeepsPass ==
    /\ (Returned /\ rule_based[1].passes_test /\ (~llm \/ Failure \in RepliesTo("validate"))) =>
           /\ result = rule_based
           /\ result[1].passes_test
           /\ result[1].failure_reasons = NoneOpt
           /\ exception = "none"
    /\ pc = "raised" => exception \in { "LLMError", "ConversationError" }

\* the validation call failed on a rule-based PASS
C4_Witness ==
    /\ Returned
    /\ llm
    /\ Failure \in RepliesTo("validate")
    /\ result[1].passes_test

(* ------------------------------- C5 ------------------------------------ *)
\* C5: a failed external gender call does not reach the caller of
\* analyze_script: nothing is raised and the analysis goes on.
C5_GenderFailureNotRaised ==
    Failure \in RepliesTo("gender") => (pc # "raised" /\ exception = "none")

(* ------------------------------- C6 ------------------------------------ *)
\* C6: when the service is available and answers a literal true or false to
\* the topic prompt, every Conversation's about_men is that answer.
C6_TopicFollowsService ==
    (llm /\ StripLower(topic_reply) \in { "true", "false" }) =>
        \A k \in 1..Len(conversations) :
            conversations[k].about_men = topic_chain(topic_reply)

(* ------------------------------- C7 ------------------------------------ *)
\* C7: a validation response that is neither true nor false leaves the
\* rule-based PASS as it is.
C7_UnknownValidationKeepsPass ==
    (Returned /\ rule_based[1].passes_test /\ "maybe" \in RepliesTo("validate")) =>
        result[1].passes_test

(* ------------------------------- C8 ------------------------------------ *)
\* C8: in every returned result, passes_test is false exactly when
\* failure_reasons is present and holds a reason; a PASS has none.
C8_FailIffReasons ==
    Returned =>
        /\ ~result[1].passes_test <=>
               (result[1].failure_reasons # NoneOpt /\ Len(result[1].failure_reasons[1]) >= 1)
        /\ result[1].passes_test => result[1].failure_reasons = NoneOpt

\* a returned rule-based FAIL of criterion 3
C8_Witness ==
    /\ Returned
    /\ ~result[1].passes_test
    /\ result[1].failure_reasons = Some(<< ReasonAllAboutMen >>)

(* ------------------------------- C9 ------------------------------------ *)
\* C9: an exception inside the windowing loop leaves analyze_script as a
\* ConversationError, with no BechdelResult returned.
C9_LoopFailureIsProcessingError ==
    /\ exception = "ConversationError" => (pc = "raised" /\ result = NoneOpt)
    /\ pc = "raised" => result = NoneOpt

\* the loop failed after it had emitted a conversation
C9_Witness ==
    /\ exception = "ConversationError"
    /\ pc = "raised"
    /\ window.conversations # <<>>

(* ------------------------------- C10 ----------------------------------- *)
\* C10: with the service stubbed, a run of analyze_script ends as every
\* earlier run on the same text did (unexpected loop failures aside), the
\* shared gender cache included.
C10_Idempotent ==
    (pc \in { "done", "raised" } /\ exception # "ConversationError") =>
        \A k \in 1..Len(outcomes) :
            outcomes[k].exception # "ConversationError" => outcomes[k] = Outcome

\* a second run that found its gender answer in the cache
C10_Witness ==
    /\ run = 2
    /\ pc = "done"
    /\ llm
    /\ gender_cache # <<>>
    /\ RepliesTo("gender") = {}
    /\ outcomes[1].verdict = Some(Verdict(result[1]))

(* ------------------------------- C11 ----------------------------------- *)
\* C11: a script without a speaker cue is processed to the empty mapping, and
\* every analysis of a script with no speaker or one speaker ends with a
\* returned FAIL whose only reason is that of criterion 1 and whose
\* conversations list is empty (unexpected loop failures aside).
C11_FewSpeakersFail ==
    /\ (script_text = <<>> /\ run > 0) => character_lines = <<>>
    /\ (pc \in { "done", "raised" } /\ Len(character_lines) <= 1
            /\ exception # "ConversationError") =>
           /\ Returned
           /\ ~result[1].passes_test
           /\ result[1].failure_reasons = Some(<< ReasonFewFemales >>)
           /\ result[1].conversations = <<>>

(* ------------------------------- C12 ----------------------------------- *)
\* C12: every Conversation the windowing loop has emitted holds at least one
\* dialogue line, and every one with at least two participants (the filter of
\* criterion 2) holds participants of at least two different names.
C12_ConversationsWellFormed ==
    \A k \in 1..Len(window.conversations) :
        LET conv == window.conversations[k]
        IN  /\ Len(conv.dialogue) >= 1
            /\ Cardinality(conv.participants) >= 2 =>
                   Cardinality({ p.name : p \in conv.participants }) >= 2

\* the returned list holds a final conversation emitted right after a reset
\* and a conversation of three speakers
C12_Witness ==
    /\ Returned
    /\ conversations = window.conversations
    /\ \E k \in 1..Len(conversations) :
           /\ conversations[k].context = <<"Final conversation in sequence">>
           /\ Len(conversations[k].dialogue) = 2
    /\ \E k \in 1..Len(conversations) : Cardinality(conversations[k].participants) = 3

(* ------------- detect_gender called directly: SpecCache ---------------- *)
\* the variables of analyze_script, at rest in the component-level
\* specifications
pipeline ==
    << script_text, topic_reply, stub_gender, stub_validate, pc, run, outcomes, calls,
       character_lines, characters, female_characters, sequence, i, window,
       conversations, result, rule_based, exception >>

IdlePipeline ==
    /\ script_text = <<>>
    /\ topic_reply = Failure
    /\ stub_gender = {}
    /\ stub_validate = NoneOpt
    /\ pc = "ready"
    /\ run = 0
    /\ outcomes = <<>>
    /\ calls = {}
    /\ character_lines = <<>>
    /\ characters = <<>>
    /\ female_characters = <<>>
    /\ sequence = <<>>
    /\ i = 0
    /\ window = WindowStart
    /\ conversations = <<>>
    /\ result = NoneOpt
    /\ rule_based = NoneOpt
    /\ exception = "none"

\* the (character_name, context) pairs detect_gender is called with
ProbeKeys ==
    { GenderKey(Character(name, << line >>), <<>>) : name \in { MARY, BOB }, line \in Lines }

InitCache ==
    /\ IdlePipeline
    /\ llm \in BOOLEAN
    /\ gender_cache = <<>>
    /\ history = <<>>
    /\ raw_text = <<>>
    /\ extracted = <<>>
    /\ mapping = <<>>
    /\ held = {}
    /\ Idle("none")

\* one call of the cached detect_gender; the service answers each prompt as it
\* likes, a call found in the cache does not reach it
DetectGenderCall ==
    /\ Len(history) < MaxCalls
    /\ \E key \in ProbeKeys, reply \in (IF llm THEN GenderReplies ELSE { Failure }) :
          LET cached == CacheHas(gender_cache, key)
              detected == IF cached THEN Return(CacheGet(gender_cache, key))
                          ELSE detect_gender(llm, reply)
          IN  /\ gender_cache' = IF cached THEN CacheTouch(gender_cache, key)
                                 ELSE CacheAfterCall(gender_cache, key, detected)
              /\ history' = Append(history, [key |-> key, reply |-> reply,
                                             detected |-> detected])
    /\ UNCHANGED << pipeline, llm, raw_text, extracted, mapping, held, later >>

NextCache == DetectGenderCall

SpecCache == InitCache /\ [][NextCache]_vars

(* ------------------------------- C13 ----------------------------------- *)
\* two calls of the history, in order, with the same key, that both returned
SameKeyCalls ==
    { p \in (1..Len(history)) \X (1..Len(history)) :
        /\ p[1] < p[2]
        /\ history[p[1]].key = history[p[2]].key
        /\ ~history[p[1]].detected.raised
        /\ ~history[p[2]].detected.raised }

\* the other keys that calls between the two calls of p returned a label for
KeysBetween(p) ==
    { history[k].key : k \in { j \in (p[1] + 1)..(p[2] - 1) :
                                 /\ ~history[j].detected.raised
                                 /\ history[j].key # history[p[1]].key } }

Pieces ==
    { <<"A","B",":">>, <<"C","D",":">>, <<"h","i">>, <<"y","o">>, <<"\n">>,
      <<" ","(","x",")"," ">> }

Texts == { Concat(ps) : ps \in SeqsUpTo(Pieces, MaxPieces) }

\* [A-Z] and [A-Z\s] of dialogue_pattern
IsUpper(c) == \E k \in 1..26 : UpperLetters[k] = c
CueChars == Range(UpperLetters) \cup Whitespace

RECURSIVE RunEnd(_, _, _)
\* the first position from p on whose character is not in Class, or
\* Len(text) + 1: where a greedy [Class]+ or [Class]* entered at p stops
RunEnd(text, p, Class) ==
    IF p <= Len(text) /\ text[p] \in Class THEN RunEnd(text, p + 1, Class) ELSE p

\* [A-Z][A-Z\s]+: matches at p; the position of the colon is returned, 0 when
\* there is no match
CueAt(text, p) ==
    IF p <= Len(text) /\ IsUpper(text[p])
    THEN LET e == RunEnd(text, p + 1, CueChars)
         IN  IF e >= p + 2 /\ e <= Len(text) /\ text[e] = ":" THEN e ELSE 0
    ELSE 0

\* \n[A-Z][A-Z\s]+: matches at q, the first alternative of the lookahead
NextCueAt(text, q) == q <= Len(text) /\ text[q] = "\n" /\ CueAt(text, q + 1) # 0

\* $ matches at q under re.MULTILINE: at the end of the text and before
\* every line break
EndOfLineAt(text, q) == q = Len(text) + 1 \/ (q <= Len(text) /\ text[q] = "\n")

\* the flags dialogue_pattern is compiled with include re.MULTILINE
MULTILINE == TRUE

\* (?=\n[A-Z][A-Z\s]+:|$) holds at q; without re.MULTILINE the $ is taken
\* to match at the end of the text only
LookaheadAt(text, q, multiline) ==
    \/ NextCueAt(text, q)
    \/ IF multiline THEN EndOfLineAt(text, q) ELSE q = Len(text) + 1

RECURSIVE LazyEnd(_, _, _)
\* where the lazy .*? entered at q stops: the first position from q on at
\* which the lookahead holds (re.DOTALL: it runs over any character)
LazyEnd(text, q, multiline) ==
    IF LookaheadAt(text, q, multiline) \/ q > Len(text) THEN q
    ELSE LazyEnd(text, q + 1, multiline)

\* dialogue_pattern matched at position p, or NoneOpt: the cue, the colon,
\* \s* greedy, the dialogue up to the lookahead
MatchAt(text, p, multiline) ==
    LET colon == CueAt(text, p)
        from  == RunEnd(text, colon + 1, Whitespace)
        to    == LazyEnd(text, from, multiline)
    IN  IF colon = 0 THEN NoneOpt
        ELSE Some([character |-> SubSeq(text, p, colon - 1),
                   dialogue  |-> SubSeq(text, from, to - 1),
                   end       |-> to])

RECURSIVE finditer(_, _, _)
\* dialogue_pattern.finditer(text): the matches from position p on, leftmost
\* first, each search starting where the previous match ended
finditer(text, p, multiline) ==
    IF p > Len(text) THEN <<>>
    ELSE LET match == MatchAt(text, p, multiline)
         IN  IF match = NoneOpt THEN finditer(text, p + 1, multiline)
             ELSE << match[1] >> \o finditer(text, match[1].end, multiline)

RECURSIVE rstrip(_)
rstrip(t) ==
    IF t # <<>> /\ t[Len(t)] \in Whitespace THEN rstrip(SubSeq(t, 1, Len(t) - 1)) ELSE t

\* str.strip()
strip(t) == rstrip(SkipWhitespace(t))

RECURSIVE RemoveParentheticals(_)
\* re.sub(r'\([^)]*\)', '', text): every "(" up to the first ")" after it
RemoveParentheticals(t) ==
    IF t = <<>> THEN <<>>
    ELSE IF Head(t) = "(" /\ \E k \in 2..Len(t) : t[k] = ")"
         THEN RemoveParentheticals(
                  SubSeq(t, (CHOOSE k \in 2..Len(t) :
                                /\ t[k] = ")"
                                /\ \A j \in 2..(k - 1) : t[j] # ")") + 1, Len(t)))
    ELSE << Head(t) >> \o RemoveParentheticals(Tail(t))

RECURSIVE CollapseWhitespace(_)
\* re.sub(r'\s+', ' ', text)
CollapseWhitespace(t) ==
    IF t = <<>> THEN <<>>
    ELSE IF Head(t) \in Whitespace THEN << " " >> \o CollapseWhitespace(SkipWhitespace(t))
    ELSE << Head(t) >> \o CollapseWhitespace(Tail(t))

\* _clean_text on characters
clean_text_chars(t) == strip(CollapseWhitespace(RemoveParentheticals(t)))

\* the (character, dialogue) pairs the loop of extract_dialogues computes from
\* the matches, before the empty ones are dropped: lines 33-36
CleanedMatches(t, multiline) ==
    LET matches == finditer(t, 1, multiline)
    IN  [k \in 1..Len(matches) |->
            [character |-> strip(matches[k].character),
             line |-> clean_text_chars(strip(matches[k].dialogue))]]

\* extract_dialogues with every dialogue kept, empty ones too
extract_dialogues_keep_empty(t) == CleanedMatches(t, MULTILINE)

\* extract_dialogues on characters: `if dialogue:` keeps the non-empty ones
extract_dialogues_chars(t) ==
    SelectSeq(CleanedMatches(t, MULTILINE), LAMBDA d : d.line # <<>>)

\* process_script on characters
process_script_chars(t) == GroupByCharacter(extract_dialogues_chars(t), <<>>)

InitText ==
    /\ IdlePipeline
    /\ llm = FALSE
    /\ gender_cache = <<>>
    /\ history = <<>>
    /\ raw_text \in Texts
    /\ extracted = NoneOpt
    /\ mapping = NoneOpt
    /\ held = {}
    /\ Idle("none")

\* process_script(raw_text) is called: it calls extract_dialogues (line 71)
\* and groups what that returned
ProcessScript ==
    /\ mapping = NoneOpt
    /\ extracted' = Some(extract_dialogues_chars(raw_text))
    /\ mapping' = Some(process_script_chars(raw_text))
    /\ UNCHANGED << pipeline, llm, gender_cache, history, raw_text, held, later >>

NextText == ProcessScript

SpecText == InitText /\ [][NextText]_vars

(* ------------------------------- C14 ----------------------------------- *)
\* C14: the dialogue extracted for each recognized speaker cue runs from the
\* cue up to the next recognized cue or the end of the text, so that a block
\* of several text lines is kept in full, its lines joined by single spaces.
C14_DialogueRunsToNextCue ==
    extracted # NoneOpt =>
        extracted[1] = SelectSeq(CleanedMatches(raw_text, FALSE), LAMBDA d : d.line # <<>>)

(* ------------------------------- C15 ----------------------------------- *)
\* the cleaned dialogues of the blocks of speaker name that are not empty, in
\* the order of the text
SpokenBy(name) ==
    LET blocks == SelectSeq(CleanedMatches(raw_text, MULTILINE),
                            LAMBDA d : d.character = name /\ d.line # <<>>)
    IN  [k \in 1..Len(blocks) |-> blocks[k].line]

\* C15: the mapping process_script returns holds no empty line and no speaker
\* with an empty list: its speakers are those with a dialogue block that is
\* not empty after cleaning, each once, and a speaker's lines are the
\* non-empty cleaned dialogues of its blocks in the order of the text.
C15_NoEmptyLines ==
    mapping # NoneOpt =>
        LET character_lines_ == mapping[1]
            blocks == CleanedMatches(raw_text, MULTILINE)
        IN  /\ \A k \in 1..Len(character_lines_) :
                   /\ character_lines_[k].lines # <<>>
                   /\ \A j \in 1..Len(character_lines_[k].lines) :
                          character_lines_[k].lines[j] # <<>>
                   /\ character_lines_[k].lines = SpokenBy(character_lines_[k].name)
                   /\ \A j \in 1..Len(character_lines_) :
                          character_lines_[j].name = character_lines_[k].name => j = k
            /\ \A k \in 1..Len(blocks) :
                   HasKey(character_lines_, blocks[k].character)
                       <=> SpokenBy(blocks[k].character) # <<>>

\* a speaker whose only block is empty after cleaning is not in the mapping,
\* which holds another speaker
C15_Witness ==
    /\ mapping # NoneOpt
    /\ mapping[1] # <<>>
    /\ \E k \in 1..Len(CleanedMatches(raw_text, MULTILINE)) :
           /\ CleanedMatches(raw_text, MULTILINE)[k].line = <<>>
           /\ ~HasKey(mapping[1], CleanedMatches(raw_text, MULTILINE)[k].character)

(* ------------------------------- C16 ----------------------------------- *)
\* the script has exactly two speakers, both female by the name lexicon, and
\* none of its lines holds a male-indicator word
TwoWomenNoMaleWord ==
    /\ Len(character_lines) = 2
    /\ \A k \in 1..Len(character_lines) :
           /\ lower(character_lines[k].name) \in female_names
           /\ \A j \in 1..Len(character_lines[k].lines) :
                  Range(LowerSplit(character_lines[k].lines[j])) \cap male_topic_indicators = {}

\* C16: for a script of exactly two speakers, both female by the name
\* lexicon, without a male-indicator word, and with the service unavailable
\* or answering true to the validation, the returned result is PASS without
\* failure_reasons and holds a Conversation of both speakers with about_men
\* false.
C16_TwoWomenPass ==
    (Returned /\ TwoWomenNoMaleWord /\ (~llm \/ RepliesTo("validate") = { " True\n" })) =>
        /\ result[1].passes_test
        /\ result[1].failure_reasons = NoneOpt
        /\ \E k \in 1..Len(result[1].conversations) :
               /\ { p.name : p \in result[1].conversations[k].participants }
                      = { character_lines[j].name : j \in 1..2 }
               /\ ~result[1].conversations[k].about_men

\* such a script analysed with the service available and agreeing
C16_Witness ==
    /\ Returned
    /\ TwoWomenNoMaleWord
    /\ llm
    /\ RepliesTo("validate") = { " True\n" }
    /\ Len(sequence) = 3
    /\ result[1].passes_test

(* ------------------------------- C17 ----------------------------------- *)
\* C17: the conversations of every returned BechdelResult are the list
\* extract_conversations returned, whole and in order: the list the windowing
\* loop built, or the empty list when the sequence has fewer than two
\* tuples, on the three rule-based FAIL paths, on PASS and on a downgrade.
C17_AllConversationsAttached ==
    Returned =>
        /\ result[1].conversations = conversations
        /\ result[1].conversations =
               IF Len(sequence) < 2 THEN <<>> ELSE window.conversations

\* a downgraded PASS whose list holds a conversation that is not between
\* women only
C17_Witness ==
    /\ Returned
    /\ rule_based[1].passes_test
    /\ ~result[1].passes_test
    /\ FemaleOnly # 1..Len(conversations)
    /\ result[1].conversations = window.conversations

(* ------------- Character objects in a set: SpecCharacter --------------- *)
Genders == { "female", "male", "unknown" }

\* Character.__hash__: hash(self.name)
Character__hash__(self) == self.name

\* Character defines no __eq__; the one it inherits from BaseModel compares
\* the fields of the two models
Character__eq__(self, other) ==
    /\ self.name = other.name
    /\ self.lines = other.lines
    /\ self.gender = other.gender

\* set.add(x): x is not added when the set holds an element of the same hash
\* that compares equal to x
SetAdd(set, x) ==
    IF \E e \in set : Character__hash__(e) = Character__hash__(x) /\ Character__eq__(e, x)
    THEN set
    ELSE set \cup { x }

InitCharacter ==
    /\ IdlePipeline
    /\ llm = FALSE
    /\ gender_cache = <<>>
    /\ history = <<>>
    /\ raw_text = <<>>
    /\ extracted = <<>>
    /\ mapping = <<>>
    /\ held = {}
    /\ Idle("none")

\* a Character of some name and gender is added to the set
AddCharacter ==
    /\ \E name \in Names, gender \in Genders :
          held' = SetAdd(held, [Character(name, <<>>) EXCEPT !.gender = gender])
    /\ UNCHANGED << pipeline, llm, gender_cache, history, raw_text, extracted, mapping, later >>

NextCharacter == AddCharacter

SpecCharacter == InitCharacter /\ [][NextCharacter]_vars

(* ------------------------------- C18 ----------------------------------- *)
\* C18: two Character records of the same name compare equal and hash equal
\* whatever their genders, so that a set of Characters never holds two
\* records of the same name.
C18_IdentityByName ==
    \A a \in held, b \in held :
        a.name = b.name =>
            /\ Character__hash__(a) = Character__hash__(b)
            /\ Character__eq__(a, b)
            /\ a = b

(* ------------------------------- C19 ----------------------------------- *)
\* C19: after the windowing loop has processed a tuple whose speaker differs
\* from the speaker of the tuple before it (the running dialogue then holds
\* more than one entry), the running dialogue is the previous tuple's line
\* followed by the current line, and the running participants are the
\* previous and the current speaker.
C19_ResetKeepsPreviousLine ==
    (i >= 2 /\ i <= Len(sequence) /\ sequence[i].name # sequence[i - 1].name) =>
        /\ window.dialogue = << sequence[i - 1].line, sequence[i].line >>
        /\ window.participants =
               { Lookup(characters, sequence[i - 1].name), Lookup(characters, sequence[i].name) }

\* the participants half of C19, which the loop does keep
C19_ResetParticipants ==
    (i >= 2 /\ i <= Len(sequence) /\ sequence[i].name # sequence[i - 1].name) =>
        window.participants =
            { Lookup(characters, sequence[i - 1].name), Lookup(characters, sequence[i].name) }

(* ------------------------------- C20 ----------------------------------- *)
\* the conversations of list that were appended at a speaker change
AtSpeakerChange(list) ==
    SelectSeq(list, LAMBDA conv : conv.context[1] = "Conversation at sequence")

\* C20: an iteration of the windowing loop leaves the Conversations emitted
\* so far as they are; when its tuple's speaker differs from last_speaker
\* and the running participants (the current speaker included) are two or
\* more, it appends one speaker-change Conversation, which holds the running
\* participants and the running dialogue (the current line included) as
\* they are before the reset, with about_men computed over that dialogue;
\* otherwise it appends no speaker-change Conversation.
C20_EmissionSnapshot ==
    [][(pc = "window" /\ i' = i + 1) =>
          LET name == sequence[i + 1].name
              line == sequence[i + 1].line
              running_participants == window.participants \cup { Lookup(characters, name) }
              running_dialogue == Append(window.dialogue, line)
              changed == window.last_speaker # NoSpeaker /\ name # window.last_speaker
              before == Len(window.conversations)
          IN  /\ Len(window'.conversations) >= before
              /\ SubSeq(window'.conversations, 1, before) = window.conversations
              /\ IF changed /\ Cardinality(running_participants) >= 2
                 THEN /\ Len(window'.conversations) >= before + 1
                      /\ window'.conversations[before + 1].participants = running_participants
                      /\ window'.conversations[before + 1].dialogue = running_dialogue
                      /\ window'.conversations[before + 1].about_men =
                             _analyze_topic(running_dialogue, llm, topic_reply)
                      /\ Len(AtSpeakerChange(window'.conversations)) =
                             Len(AtSpeakerChange(window.conversations)) + 1
                 ELSE AtSpeakerChange(window'.conversations) =
                          AtSpeakerChange(window.conversations)]_vars

\* a Conversation emitted at the first speaker change, kept as it was while
\* the next iteration reset the window and emitted another one
C20_Witness ==
    /\ i = 3
    /\ Len(window.conversations) >= 2
    /\ window.conversations[1].context = <<"Conversation at sequence", 1>>
    /\ window.conversations[1].dialogue = << sequence[1].line, sequence[2].line >>
    /\ sequence[1].line # sequence[2].line
    /\ window.conversations[2].context = <<"Conversation at sequence", 2>>
    /\ Len(window.conversations[2].dialogue) = 3
    /\ Cardinality(window.conversations[2].participants) = 3

(* ------------------------------- C21 ----------------------------------- *)
\* the windowing loop has processed the last tuple of the sequence
LoopDone == Len(sequence) >= 2 /\ i = Len(sequence)

\* C21: once the last tuple is processed with two or more running
\* participants, the list ends with exactly one final Conversation; when the
\* last tuple is a speaker change, the speaker-change Conversation of that
\* index stands right before it, both kept; and the speaker-change
\* Conversations are in increasing tuple-index order, before the final one.
C21_FinalEmission ==
    LoopDone =>
        LET list == window.conversations
            n == Len(sequence)
            final == { k \in 1..Len(list) :
                         list[k].context = <<"Final conversation in sequence">> }
        IN  /\ Cardinality(window.participants) >= 2 => final = { Len(list) }
            /\ Cardinality(window.participants) < 2 => final = {}
            /\ sequence[n].name # sequence[n - 1].name =>
                   /\ Len(list) >= 2
                   /\ list[Len(list) - 1].context = <<"Conversation at sequence", n - 1>>
                   /\ list[Len(list)].context = <<"Final conversation in sequence">>
            /\ \A j \in 1..Len(list), k \in 1..Len(list) :
                   (j < k /\ k \notin final) =>
                       /\ j \notin final
                       /\ list[j].context[2] < list[k].context[2]

\* the last tuple is a speaker change and both Conversations of that index
\* have the same content
C21_Witness ==
    /\ LoopDone
    /\ Len(window.conversations) >= 2
    /\ LET list == window.conversations
           last == Len(list)
       IN  /\ list[last - 1].context = <<"Conversation at sequence", Len(sequence) - 1>>
           /\ list[last].context = <<"Final conversation in sequence">>
           /\ list[last - 1].participants = list[last].participants
           /\ list[last - 1].dialogue = list[last].dialogue

(* ------------ classify_character called directly: SpecClassify ---------- *)
GARY == <<"G","A","R","Y">>
AUDREY == <<"A","U","D","R","E","Y">>

\* script_text: absent, or one block whose cue names the character or
\* someone else
ContextsOf(name) ==
    { <<>> } \cup { << [character |-> speaker, dialogue |-> << word >>] >> :
                      speaker \in { name, MARY }, word \in { "hi", "she", "He" } }

IdleProbes ==
    /\ history = <<>>
    /\ raw_text = <<>>
    /\ extracted = <<>>
    /\ mapping = <<>>
    /\ held = {}

\* the names: names of the lexicons whose ending the other gender's suffix
\* rule matches, names outside the lexicons with each ending of the suffix
\* rules, a name of two tokens and names no name stage decides; the lines: no
\* line, or one line without, with a female or with a male indicator word
InitClassify ==
    /\ IdlePipeline
    /\ IdleProbes
    /\ Idle("classifier")
    /\ llm \in BOOLEAN
    /\ gender_cache = <<>>
    /\ \E name \in
            { <<"K","A","R","E","N">>, GARY, <<"T","I","N","A">>,
              <<"J","A","C","K","I","E">>, <<"K","E","L","L","Y">>,
              <<"T","R","A","C","I">>, <<"A","B","B","Y">>, AUDREY,
              <<"M","A","N","D","Y">>, <<"K","I","T","T","Y">>,
              <<"N","E","L","S","O","N">>, <<"M","I","L","T","O","N">>,
              <<"P","E","T","E","R">>, <<"V","I","C","T","O","R">>, <<"O","W","E","N">>,
              <<"A","N","A"," ","S","O","N">>, BOB, <<"Z","O","E">> } :
          /\ character \in { Some(Character(name, lines)) :
                                lines \in { <<>>, << <<"hi">> >>, << <<"she">> >>,
                                            << <<"He">> >> } }
          /\ context \in ContextsOf(name)
    /\ classification = NoneOpt

\* classify_character(character, context) is called once: lines 58-98 of
\* character.py, the call of the cached detect_gender included
ClassifyCall ==
    /\ classification = NoneOpt
    /\ LET char == character[1]
           key == GenderKey(char, context)
           called == CallsDetectGender(char, context)
       IN  \E reply \in (IF called /\ llm THEN GenderReplies ELSE { Failure }) :
              LET detected == detect_gender(llm, reply)
                  returned ==
                      classify_character(char, context,
                          IF called /\ ~detected.raised THEN detected.value[1]
                          ELSE "unknown")
              IN  /\ gender_cache' = IF called
                                     THEN CacheAfterCall(gender_cache, key, detected)
                                     ELSE gender_cache
                  /\ classification' =
                         Some([name_gender |-> _get_name_gender(char.name),
                               called |-> called,
                               detected |-> IF called THEN Some(detected) ELSE NoneOpt,
                               raised |-> called /\ detected.raised,
                               gender |-> IF called /\ detected.raised THEN char.gender
                                          ELSE returned.gender])
    /\ UNCHANGED << pipeline, llm, history, raw_text, extracted, mapping, held, character, context,
                    topic, scraper, endpoint >>

SpecClassify == InitClassify /\ [][ClassifyCall]_vars

\* the lexicon lookup of _get_name_gender alone
LexiconVerdict(name) ==
    LET first_name == FirstToken(lower(name))
    IN  IF first_name \in female_names THEN "female"
        ELSE IF first_name \in male_names THEN "male"
        ELSE "unknown"

\* the ending rules of _get_name_gender alone
SuffixVerdict(name) ==
    LET first_name == FirstToken(lower(name))
        ends(suffix) == endswith(first_name, suffix)
    IN  IF /\ ends(<<"a">>) \/ ends(<<"i","e">>) \/ ends(<<"y">>) \/ ends(<<"i">>)
           /\ ~(ends(<<"b","y">>) \/ ends(<<"e","y">>) \/ ends(<<"d","y">>)
                \/ ends(<<"t","y">>))
        THEN "female"
        ELSE IF \/ ends(<<"s","o","n">>) \/ ends(<<"t","o","n">>) \/ ends(<<"e","r">>)
                \/ ends(<<"o","r">>) \/ ends(<<"e","n">>)
             THEN "male"
        ELSE "unknown"

\* the verdicts of the four local stages for the character given, in the
\* order lexicon, suffix, own dialogue, script context; a text stage without
\* its text is inconclusive
LocalStages ==
    << LexiconVerdict(character[1].name),
       SuffixVerdict(character[1].name),
       IF character[1].lines # <<>>
       THEN _analyze_dialogue_for_gender(character[1].lines) ELSE "unknown",
       IF context # <<>>
       THEN _analyze_context_for_gender(character[1].name, context) ELSE "unknown" >>

Decisive == { k \in 1..4 : LocalStages[k] # "unknown" }

FirstDecisive == CHOOSE k \in Decisive : \A j \in Decisive : k <= j

\* C22: classify_character sets the gender to the verdict of the first
\* decisive stage in the order lexicon, suffix, own dialogue, script context,
\* external judgment: a decisive local stage is never overridden by a later
\* one (a lexicon name keeps the lexicon's gender whatever its ending, lines
\* and context say), detect_gender is called only when the four local stages
\* are all inconclusive and script text is given, and then its label, when it
\* is female or male, is the gender; otherwise the gender stays unknown
C22_FallbackOrder ==
    classification # NoneOpt =>
        LET c == classification[1]
        IN  /\ Decisive # {} =>
                 /\ ~c.called
                 /\ ~c.raised
                 /\ c.gender = LocalStages[FirstDecisive]
            /\ c.called <=> (Decisive = {} /\ context # <<>>)
            /\ (Decisive = {} /\ ~c.raised) =>
                 c.gender = IF c.called /\ c.detected[1].value[1] \in { "female", "male" }
                            THEN c.detected[1].value[1]
                            ELSE "unknown"

\* GARY, a name of the male lexicon that ends in y, with a female indicator in
\* the own line and in the context, was classified male without the service
C22_Witness ==
    /\ classification # NoneOpt
    /\ character[1].name = GARY
    /\ character[1].lines = << <<"she">> >>
    /\ context = << [character |-> GARY, dialogue |-> << "she" >>] >>
    /\ classification[1].gender = "male"
    /\ ~classification[1].called

\* C27: for a first name in neither lexicon, _get_name_gender returns female
\* iff the lowercased first token ends in a, ie, y or i and not in by, ey, dy
\* or ty; otherwise male iff it ends in son, ton, er, or or en; otherwise
\* unknown.  AUDREY is not decided by the name: its gender is what the later
\* stages say
C27_NameSuffixStage ==
    classification # NoneOpt =>
        LET c == classification[1]
            first_name == FirstToken(lower(character[1].name))
            ends(suffix) == endswith(first_name, suffix)
            female_ending ==
                /\ ends(<<"a">>) \/ ends(<<"i","e">>) \/ ends(<<"y">>) \/ ends(<<"i">>)
                /\ ~ends(<<"b","y">>) /\ ~ends(<<"e","y">>)
                /\ ~ends(<<"d","y">>) /\ ~ends(<<"t","y">>)
            male_ending ==
                \/ ends(<<"s","o","n">>) \/ ends(<<"t","o","n">>) \/ ends(<<"e","r">>)
                \/ ends(<<"o","r">>) \/ ends(<<"e","n">>)
        IN  /\ first_name \notin female_names \cup male_names =>
                 /\ c.name_gender = "female" <=> female_ending
                 /\ c.name_gender = "male" <=> (~female_ending /\ male_ending)
                 /\ c.name_gender = "unknown" <=> (~female_ending /\ ~male_ending)
            /\ character[1].name = AUDREY =>
                 /\ c.name_gender = "unknown"
                 /\ LocalStages[3] # "unknown" => c.gender = LocalStages[3]
                 /\ (LocalStages[3] = "unknown" /\ LocalStages[4] # "unknown") =>
                       c.gender = LocalStages[4]
                 /\ c.called <=> (LocalStages[3] = "unknown" /\ LocalStages[4] = "unknown"
                                  /\ context # <<>>)

\* AUDREY, whose own line holds a male indicator, was classified male: the
\* name decided nothing
C27_Witness ==
    /\ classification # NoneOpt
    /\ character[1].name = AUDREY
    /\ character[1].lines = << <<"He">> >>
    /\ classification[1].name_gender = "unknown"
    /\ classification[1].gender = "male"

(* --------- extract_conversations called directly: SpecWindow ------------ *)
\* the speakers of a mapping, in the order of their first cue
Cast == << BOB, MARY, SARAH, GARY, AUDREY >>

RECURSIVE Repeat(_, _)
\* [x] * n
Repeat(x, n) == IF n = 0 THEN <<>> ELSE << x >> \o Repeat(x, n - 1)

\* analyze_script stands at line 56: the mapping has 0 to MaxSpeakers speakers
\* with one to MaxLinesEach lines each, every speaker has its Character, and
\* extract_conversations is about to be called
InitWindow ==
    /\ script_text = <<>>
    /\ llm = FALSE
    /\ topic_reply = Failure
    /\ stub_gender = {}
    /\ stub_validate = NoneOpt
    /\ gender_cache = <<>>
    /\ pc = "classify"
    /\ run = 1
    /\ outcomes = <<>>
    /\ calls = {}
    /\ character_lines \in
          UNION { { [s \in 1..k |-> [name |-> Cast[s],
                                     lines |-> Repeat(<< "hi" >>, count[s])]] :
                      count \in [1..k -> 1..MaxLinesEach] } : k \in 0..MaxSpeakers }
    /\ characters = [k \in 1..Len(character_lines) |->
                       Character(character_lines[k].name, character_lines[k].lines)]
    /\ female_characters = <<>>
    /\ sequence = <<>>
    /\ i = 0
    /\ window = WindowStart
    /\ conversations = <<>>
    /\ result = NoneOpt
    /\ rule_based = NoneOpt
    /\ exception = "none"
    /\ IdleProbes
    /\ Idle("none")

NextWindow == ExtractConversations \/ WindowStep

SpecWindow == InitWindow /\ [][NextWindow]_vars

\* extract_conversations returned its list
Extracted == pc = "criteria"

\* C23: for a mapping of k speakers with at least one line each,
\* extract_conversations returns exactly k Conversations when k >= 2 and the
\* empty list when k < 2 (or the flattened sequence has fewer than 2 tuples),
\* however many lines the speakers have
C23_ConversationCount ==
    Extracted =>
        LET k == Len(character_lines)
        IN  /\ k >= 2 => Len(conversations) = k
            /\ (k < 2 \/ Len(sequence) < 2) => conversations = <<>>

\* four speakers, one of them with two lines, gave four Conversations
C23_Witness ==
    /\ Extracted
    /\ Len(character_lines) = 4
    /\ \E k \in 1..4 : Len(character_lines[k].lines) = 2
    /\ Len(conversations) = 4

\* the pairs of speakers whose lines are consecutive in the flattened sequence
AdjacentSpeakers ==
    { { sequence[k].name, sequence[k + 1].name } :
        k \in { j \in 1..(Len(sequence) - 1) : sequence[j].name # sequence[j + 1].name } }

ParticipantNames(conversation) == { p.name : p \in conversation.participants }

\* C24: for every two speakers whose lines are consecutive in the flattened
\* sequence, the returned list holds a Conversation whose participants are
\* exactly those two
C24_AdjacentSpeakersConverse ==
    Extracted =>
        \A pair \in AdjacentSpeakers :
            \E k \in 1..Len(conversations) : ParticipantNames(conversations[k]) = pair

\* C25: every Conversation emitted has 2 or 3 participants; the running
\* participants set never has more than 3 members, and after the iteration of
\* a speaker change, which resets it, it has exactly 2
C25_ParticipantsBound ==
    /\ \A k \in 1..Len(window.conversations) :
          Cardinality(window.conversations[k].participants) \in { 2, 3 }
    /\ \A k \in 1..Len(conversations) :
          Cardinality(conversations[k].participants) \in { 2, 3 }
    /\ Cardinality(window.participants) <= 3
    /\ (i >= 2 /\ sequence[i].name # sequence[i - 1].name) =>
          Cardinality(window.participants) = 2

\* after the third speaker's first line a Conversation of three participants
\* is in the list and the running set is back to two
C25_Witness ==
    /\ pc = "window"
    /\ i >= 3
    /\ sequence[i].name # sequence[i - 1].name
    /\ Cardinality(window.conversations[Len(window.conversations)].participants) = 3
    /\ Cardinality(window.participants) = 2

(* -------------- _analyze_topic called directly: SpecTopic --------------- *)
\* the dialogue has two lines: m times "He" and a times "hi", then b times
\* "hi"
InitTopic ==
    /\ script_text = <<>>
    /\ llm \in BOOLEAN
    /\ topic_reply \in (IF llm THEN TopicReplies ELSE { Failure })
    /\ gender_cache = <<>>
    /\ stub_gender = {}
    /\ stub_validate = NoneOpt
    /\ pc = "ready"
    /\ run = 0
    /\ outcomes = <<>>
    /\ calls = {}
    /\ character_lines = <<>>
    /\ characters = <<>>
    /\ female_characters = <<>>
    /\ sequence = <<>>
    /\ i = 0
    /\ window = WindowStart
    /\ conversations = <<>>
    /\ result = NoneOpt
    /\ rule_based = NoneOpt
    /\ exception = "none"
    /\ IdleProbes
    /\ Idle("topic")
    /\ topic_dialogue \in
          { << Repeat("He", m) \o Repeat("hi", a), Repeat("hi", b) >> :
              m \in 0..MaxMale, a \in 0..MaxOther, b \in 0..MaxOther }
    /\ about_men = NoneOpt

\* _analyze_topic(topic_dialogue, context) is called once: lines 145-163 of
\* conversation.py
AnalyzeTopic ==
    /\ about_men = NoneOpt
    /\ about_men' = Some(_analyze_topic(topic_dialogue, llm, topic_reply))
    /\ UNCHANGED << pipeline, llm, gender_cache, history, raw_text, extracted, mapping,
                    held, classifier, topic_dialogue, scraper, endpoint >>

SpecTopic == InitTopic /\ [][AnalyzeTopic]_vars

\* the words of the dialogue, one (line, position) pair each
WordPlaces ==
    UNION { { << k, j >> : j \in 1..Len(topic_dialogue[k]) } : k \in 1..Len(topic_dialogue) }

MaleWordPlaces ==
    { p \in WordPlaces : LowerWord(topic_dialogue[p[1]][p[2]]) \in male_topic_indicators }

\* the service is unavailable, fails, or answers something other than
\* true/false
NoTopicAnswer ==
    \/ ~llm
    \/ topic_reply = Failure
    \/ StripLower(topic_reply) \notin { "true", "false" }

rate_limit == 2

\* the state of the instance, of the ClientSession objects and of the
\* coroutines; the operators below take it and return it changed
ScraperState ==
    [last_request |-> last_request, _session |-> _session, closed |-> closed,
     made |-> made, co |-> co, requests |-> requests]

\* BaseScraper.__aenter__: a ClientSession is constructed when there is none
__aenter__(st) ==
    IF st._session = NoneOpt
    THEN [st EXCEPT !._session = Some(st.made + 1), !.made = st.made + 1]
    ELSE st

\* BaseScraper.__aexit__ up to where the coroutine is suspended or done:
\* the session, if any, is closed; when the await of close() suspends, the
\* assignment of None waits for the coroutine to be resumed
__aexit__(st, c, suspends) ==
    IF st._session = NoneOpt
    THEN [st EXCEPT !.co[c].pc = "done"]
    ELSE LET shut == [st EXCEPT !.closed = st.closed \cup { st._session[1] }]
         IN  IF suspends
             THEN [shut EXCEPT !.co[c].pc = "closing"]
             ELSE [shut EXCEPT !._session = NoneOpt, !.co[c].pc = "done"]

\* the coroutine leaves its `async with` block, by return, continue or an
\* exception
Leave(st, c, outcome, suspends) ==
    __aexit__([st EXCEPT !.co[c].outcome = outcome], c, suspends)

\* _fetch from `self.last_request = datetime.now()` of _wait_for_rate_limit
\* to the suspension in self._session.get: without a session the attribute
\* access fails, and a closed ClientSession refuses the request
SendRequest(st, c, suspends) ==
    LET stamped == [st EXCEPT !.last_request = Some(now)]
    IN  IF st._session = NoneOpt
        THEN Leave(stamped, c, "no session", suspends)
        ELSE IF st._session[1] \in st.closed
        THEN Leave(stamped, c, "session closed", suspends)
        ELSE [stamped EXCEPT !.requests = Append(st.requests,
                                                 [at |-> now, by |-> c, on |-> st._session[1]]),
                             !.co[c].pc = "requesting",
                             !.co[c].on = st._session[1]]

\* _fetch from its first line to its first suspension: the session check,
\* then _wait_for_rate_limit, which sleeps for what is left of rate_limit
\* since last_request
FetchBegin(st, c, suspends) ==
    IF st._session = NoneOpt
    THEN Leave(st, c, "session not initialized", suspends)
    ELSE IF st.last_request # NoneOpt /\ now - st.last_request[1] < rate_limit
    THEN [st EXCEPT !.co[c].pc = "sleeping",
                    !.co[c].wake = now + (rate_limit - (now - st.last_request[1]))]
    ELSE SendRequest(st, c, suspends)

\* the instance and the coroutines become st
Becomes(st) ==
    /\ last_request' = st.last_request
    /\ _session' = st._session
    /\ closed' = st.closed
    /\ made' = st.made
    /\ co' = st.co
    /\ requests' = st.requests

InitScraper ==
    /\ IdlePipeline
    /\ llm = FALSE
    /\ gender_cache = <<>>
    /\ IdleProbes
    /\ Idle("scraper")
    /\ now = 0
    /\ last_request = NoneOpt
    /\ _session = NoneOpt
    /\ closed = {}
    /\ made = 0
    /\ co = [c \in 1..MaxCoroutines |->
               [pc |-> "start", fetches |-> 0, wake |-> 0, on |-> 0, outcome |-> "none"]]
    /\ requests = <<>>

\* an API request reaches `async with scraper:` and the search inside it:
\* __aenter__ and _fetch run to the first suspension
Enter(c) ==
    /\ co[c].pc = "start"
    /\ \E suspends \in BOOLEAN :
          Becomes(FetchBegin(__aenter__(ScraperState), c, suspends))
    /\ UNCHANGED << now, pipeline, llm, gender_cache, history, raw_text,
                    extracted, mapping, held, classifier, topic, endpoint >>

\* asyncio.sleep is over: _wait_for_rate_limit stamps last_request and
\* _fetch sends the request
Wake(c) ==
    /\ co[c].pc = "sleeping"
    /\ now >= co[c].wake
    /\ \E suspends \in BOOLEAN : Becomes(SendRequest(ScraperState, c, suspends))
    /\ UNCHANGED << now, pipeline, llm, gender_cache, history, raw_text,
                    extracted, mapping, held, classifier, topic, endpoint >>

\* the request of c ends: with an error the coroutine leaves the block;
\* after the search page the script page is fetched, after the script page
\* get_script returns
Respond(c) ==
    /\ co[c].pc = "requesting"
    /\ \E ok \in BOOLEAN, suspends \in BOOLEAN :
          LET st == [ScraperState EXCEPT !.co[c].on = 0]
          IN  IF ~ok
              THEN Becomes(Leave(st, c, "request failed", suspends))
              ELSE IF co[c].fetches = 0
              THEN Becomes(FetchBegin([st EXCEPT !.co[c].fetches = 1], c, suspends))
              ELSE Becomes(Leave([st EXCEPT !.co[c].fetches = 2], c, "returned", suspends))
    /\ UNCHANGED << now, pipeline, llm, gender_cache, history, raw_text,
                    extracted, mapping, held, classifier, topic, endpoint >>

\* the await of close() in __aexit__ is over: self._session = None
Closed(c) ==
    /\ co[c].pc = "closing"
    /\ Becomes([ScraperState EXCEPT !._session = NoneOpt, !.co[c].pc = "done"])
    /\ UNCHANGED << now, pipeline, llm, gender_cache, history, raw_text,
                    extracted, mapping, held, classifier, topic, endpoint >>

\* a second passes
Tick ==
    /\ now < MaxTime
    /\ now' = now + 1
    /\ UNCHANGED << last_request, _session, closed, made, co, requests,
                    pipeline, llm, gender_cache, history, raw_text,
                    extracted, mapping, held, classifier, topic, endpoint >>

NextScraper ==
    \/ \E c \in 1..MaxCoroutines : Enter(c) \/ Wake(c) \/ Respond(c) \/ Closed(c)
    \/ Tick

SpecScraper == InitScraper /\ [][NextScraper]_vars

\* C28: any two requests issued through _fetch of the instance are at least
\* rate_limit seconds apart, however the coroutines interleave
C28_RateLimit ==
    \A a, b \in 1..Len(requests) :
        a < b => requests[b].at - requests[a].at >= rate_limit

\* the coroutines inside their `async with scraper:` block
Inside == { c \in 1..MaxCoroutines : co[c].pc \in { "sleeping", "requesting" } }

\* C29: while a coroutine is inside its `async with scraper:` block the
\* session of the instance is there and open, its own request runs on an
\* open session, and no _fetch made inside a block found the session missing
\* or closed
C29_SessionStaysOpen ==
    /\ Inside # {} => (_session # NoneOpt /\ _session[1] \notin closed)
    /\ \A c \in 1..MaxCoroutines :
          /\ co[c].pc = "requesting" => co[c].on \notin closed
          /\ co[c].outcome \notin { "session not initialized", "no session",
                                    "session closed" }

(* ----------------- the get_script endpoint: SpecApi --------------------- *)
\* the sources of SCRAPERS, in priority order
SCRAPERS == << "IMSDB", "Cinematheque" >>

ScriptResponse(source, script) == [source |-> source, script |-> script]

\* the cache file of the title: absent, or written by an earlier request and
\* still valid or expired
CacheFiles ==
    { NoneOpt } \cup { Some([script |-> ScriptResponse("IMSDB", "earlier"), expired |-> e]) :
                         e \in BOOLEAN }

\* get_cached_script: the stored response unless the file is absent or expired
get_cached_script(file) ==
    IF file = NoneOpt THEN NoneOpt
    ELSE IF file[1].expired THEN NoneOpt
    ELSE Some(file[1].script)

\* cache_script: the response is stored with the time of writing, unless
\* writing fails, which is logged and nothing else
cache_script(file, resp, written) ==
    IF written THEN Some([script |-> resp, expired |-> FALSE]) ELSE file

\* how the loop body of get_script ends for a scraper that fails the script
\* fetch but with the ScrapingError let through
LoopBodyEnd_fetch_error_raised(behaviour) ==
    IF behaviour.search = "error" THEN "raise"
    ELSE IF behaviour.search = "none" THEN "continue"
    ELSE IF behaviour.fetch = "error" THEN "raise"
    ELSE "return"

\* how the loop body of get_script ends for a scraper: ScrapingError from the
\* search is not caught, no result and a failed script fetch go on to the
\* next scraper
LoopBodyEnd(behaviour) ==
    IF behaviour.search = "error" THEN "raise"
    ELSE IF behaviour.search = "none" THEN "continue"
    ELSE IF behaviour.fetch = "error" THEN "continue"
    ELSE "return"

\* scrapers says what each scraper does for the title: search_script returns
\* None, returns a result or raises ScrapingError; get_script returns the text
\* or raises ScrapingError
InitApi ==
    /\ IdlePipeline
    /\ llm = FALSE
    /\ gender_cache = <<>>
    /\ IdleProbes
    /\ Idle("endpoint")
    /\ cache_file \in CacheFiles
    /\ scrapers \in [1..Len(SCRAPERS) ->
                       [search : { "none", "found", "error" }, fetch : { "ok", "error" }]]
    /\ api_pc = "idle"
    /\ tried = <<>>
    /\ response = NoneOpt

\* GET /scripts/{title}: the cache is looked up
GetScript ==
    /\ api_pc = "idle"
    /\ LET hit == get_cached_script(cache_file)
       IN  IF hit # NoneOpt
           THEN /\ response' = Some([status |-> 200, body |-> hit, scraped |-> FALSE])
                /\ api_pc' = "done"
           ELSE /\ response' = response
                /\ api_pc' = "scraping"
    /\ UNCHANGED << cache_file, scrapers, tried, pipeline, llm, gender_cache, history, raw_text,
                    extracted, mapping, held, classifier, topic, scraper >>

\* one iteration of `for scraper in SCRAPERS`
TryScraper ==
    /\ api_pc = "scraping"
    /\ Len(tried) < Len(SCRAPERS)
    /\ LET k == Len(tried) + 1
           end == LoopBodyEnd(scrapers[k])
           body == ScriptResponse(SCRAPERS[k], "fetched")
       IN  CASE end = "continue" ->
                  /\ tried' = Append(tried, SCRAPERS[k])
                  /\ UNCHANGED << cache_file, api_pc, response >>
             [] end = "raise" ->
                  /\ response' = Some([status |-> 503, body |-> NoneOpt, scraped |-> FALSE])
                  /\ api_pc' = "done"
                  /\ UNCHANGED << cache_file, tried >>
             [] end = "return" ->
                  /\ \E written \in BOOLEAN :
                        cache_file' = cache_script(cache_file, body, written)
                  /\ response' = Some([status |-> 200, body |-> Some(body), scraped |-> TRUE])
                  /\ api_pc' = "done"
                  /\ UNCHANGED tried
    /\ UNCHANGED << scrapers, pipeline, llm, gender_cache, history, raw_text,
                    extracted, mapping, held, classifier, topic, scraper >>

\* the loop is over: HTTPException(404)
NotFound ==
    /\ api_pc = "scraping"
    /\ Len(tried) = Len(SCRAPERS)
    /\ response' = Some([status |-> 404, body |-> NoneOpt, scraped |-> FALSE])
    /\ api_pc' = "done"
    /\ UNCHANGED << cache_file, scrapers, tried, pipeline, llm, gender_cache, history, raw_text,
                    extracted, mapping, held, classifier, topic, scraper >>

NextApi == GetScript \/ TryScraper \/ NotFound

SpecApi == InitApi /\ [][NextApi]_vars

\* the loop of get_script moves past scraper k: its search returns no result,
\* or its search finds the script and its fetch raises ScrapingError
Skipped(k) ==
    \/ scrapers[k].search = "none"
    \/ scrapers[k].search = "found" /\ scrapers[k].fetch = "error"

Succeeds(k) == scrapers[k].search = "found" /\ scrapers[k].fetch = "ok"

\* C30: after a cache miss the scrapers are asked in the order of SCRAPERS;
\* every scraper passed over is one whose search returned no result or whose
\* fetch raised ScrapingError, and such a scraper never ends the request; a
\* scraped response comes from the first scraper whose search and fetch both
\* succeed; the cache file is only written with that response; 404 is only
\* answered after every scraper has been passed over
C30_FallbackOrder ==
    /\ \A k \in 1..Len(tried) : tried[k] = SCRAPERS[k] /\ Skipped(k)
    /\ api_pc = "scraping" => get_cached_script(cache_file) = NoneOpt
    /\ response # NoneOpt =>
          LET r == response[1]
              k == Len(tried) + 1
          IN  /\ r.scraped =>
                    /\ r.status = 200
                    /\ k <= Len(SCRAPERS)
                    /\ Succeeds(k)
                    /\ \A j \in 1..(k - 1) : ~Succeeds(j)
                    /\ r.body = Some(ScriptResponse(SCRAPERS[k], "fetched"))
              /\ r.status = 404 =>
                    /\ Len(tried) = Len(SCRAPERS)
                    /\ \A j \in 1..Len(SCRAPERS) : Skipped(j)
              /\ r.status = 503 => (k <= Len(SCRAPERS) /\ ~Skipped(k) /\ ~Succeeds(k))
              /\ (r.status = 200 /\ ~r.scraped) => tried = <<>>
    /\ \/ cache_file \in CacheFiles
       \/ /\ response # NoneOpt
          /\ response[1].scraped
          /\ cache_file # NoneOpt
          /\ Some(cache_file[1].script) = response[1].body

\* IMSDB found the script and failed to fetch it, Cinematheque delivered it,
\* and the cache file holds the Cinematheque response
C30_Witness ==
    /\ api_pc = "done"
    /\ tried = << "IMSDB" >>
    /\ scrapers[1].search = "found"
    /\ scrapers[1].fetch = "error"
    /\ response[1].status = 200
    /\ response[1].body = Some(ScriptResponse("Cinematheque", "fetched"))
    /\ cache_file = Some([script |-> ScriptResponse("Cinematheque", "fetched"),
                          expired |-> FALSE])

====
